---- MODULE Spec2Model ----
(***************************************************************************)
(* Model of the caching subsystem of spartan-ui-mcp: the version-          *)
(* partitioned disk cache (CacheManager), the cache-management tools, the  *)
(* in-memory fetch cache (fetchContent) and the cache warmer (warmCache).  *)
(***************************************************************************)
EXTENDS Integers, Sequences, FiniteSets, TLC

\* ------------------------------------------------------------------ bounds
\* How many times the clock may advance in one behaviour.
MaxTicks == 2
\* How many fetchContent calls one behaviour makes.
MaxCalls == 2
\* How many components one warmCache call is given at most.
MaxList == 2
\* How many spartan_components_get / spartan_docs_get calls one behaviour makes.
MaxTools == 2
\* The same, for the behaviours that go through a refresh.
MaxRefresh == 3
\* How many lines the content of a code block has at most.
MaxLines == 5
\* How many blocks a page without API sections has at most.
MaxBlocks == 3
\* How many data rows an Inputs table has at most.
MaxRows == 2

\* How many headings and paragraphs a page with API sections has at most.
MaxSections == 4

\* ------------------------------------------------------- program constants
\* Number(process.env.SPARTAN_CACHE_TTL_HOURS || 24)
ttlHours == 24
\* ttlHours * 60 * 60 * 1000
TtlMs == ttlHours * 60 * 60 * 1000

\* Number(process.env.SPARTAN_CACHE_TTL_MS || 5 * 60 * 1000)
ttlMs == 5 * 60 * 1000

\* --------------------------------------------------------------- JS values
\* Every JavaScript value is a record, so that any two can be compared.
Undefined == [undef |-> TRUE]
Null == [null |-> TRUE]
Str(s) == [str |-> s]
\* An object is a function from field names to values.
EmptyObj == [x \in {} |-> Undefined]
\* obj[f], undefined for a field the object does not have.
Get(obj, f) == IF f \in DOMAIN obj THEN obj[f] ELSE Undefined
\* JS truthiness (objects are truthy, "" null and undefined are not).
Truthy(v) == v # Undefined /\ v # Null /\ v # Str("")
\* new Date(ms).toISOString() and new Date(iso).getTime()
toISOString(ms) == [iso |-> ms]
getTime(d) == d.iso
\* JSON.stringify drops the fields whose value is undefined.
JSONstringify(obj) ==
  [json |-> [f \in {g \in DOMAIN obj : obj[g] # Undefined} |-> obj[f]]]
\* JSON.stringify(x).length, abstracted to the number of fields written.
JSONlength(obj) == Cardinality(DOMAIN JSONstringify(obj).json)

\* ------------------------------------------------------------ input domains
\* Version partitions (opaque, non-empty directory names).
Versions == {"latest", "v1"}
\* The order fs.readdir lists them in.
VersionOrder == <<"latest", "v1">>
\* The argument left out, and the empty string.
NoArg == "<undefined>"
VersionArgs == Versions \cup {NoArg, ""}
NullVersion == "<null>"
Keys == {"button", "dialog"}
Topics == {"installation"}
DataTypes == {"html", "full"}

PageX == "<h1>X</h1>"
FullOf(html, url) == [html |-> Str(html), url |-> Str(url)]
\* Payloads handed to setComponent: the shape the handlers write
\* ({html, ..., full}), and the spec's scenario payload ({html} alone).
Payloads ==
  { [html |-> Str(PageX)],
    [html |-> Str(PageX), full |-> FullOf(PageX, "u")] }
Contents == {"<p>docs</p>"}
\* Payloads with every field a handler writes, some of them empty: an empty
\* array is an object (truthy), an empty string is not.
EmptyArray == [array |-> <<>>]
FieldPayloads ==
  { [html |-> Str(PageX), examples |-> EmptyArray, full |-> FullOf(PageX, "u")],
    [html |-> Str(""), examples |-> EmptyArray],
    [html |-> Str(PageX)] }
Fields == {"html", "examples", "full"}

\* ---------------------------------------------------------------- the disk
NoFile == [nofile |-> TRUE]
NoDir == [nodir |-> TRUE]
\* A file that is there and on which JSON.parse throws.
Corrupt == [corrupt |-> TRUE]
\* A partition right after mkdir -p components, docs.
EmptyPartition ==
  [metadata |-> NoFile,
   components |-> [k \in Keys |-> NoFile],
   docs |-> [t \in Topics |-> NoFile]]
\* fs.readFile + JSON.parse succeed on a file that holds JSON.
Readable(file) == "json" \in DOMAIN file

VARIABLES
  now,             \* Date.now(), in milliseconds
  ticks,           \* how often the clock advanced
  currentVersion,  \* CacheManager.currentVersion
  cacheMetadata,   \* CacheManager.cacheMetadata
  cacheDirExists,  \* whether cache/ exists
  disk,            \* cache/{version}/...
  op,              \* the last operation called, with its arguments
  prev,            \* the name of the operation called before it
  ret,             \* what the last operation returned (or threw)
  responseCache,   \* the in-memory Map of fetchContent
  calls,           \* the fetchContent calls, one slot per caller
  nextSeq,         \* how many fetchContent calls were started, plus one
  netCalls,        \* how many times fetch(url) was called
  warm,            \* the warmCache call: its position, locals and result
  tool,            \* the spartan_*_get call: its position, locals and result
  ex,              \* the extraction call: its function, page and result
  reqs             \* the concurrent handler requests: position and locals

mgrVars == <<currentVersion, cacheMetadata, cacheDirExists, disk, op, prev, ret>>
fetchVars == <<responseCache, calls, nextSeq, netCalls>>
vars == <<now, ticks, mgrVars, fetchVars, warm, tool, ex, reqs>>

\* The manager and the disk as one value, so that calls can be composed.
Mgr ==
  [currentVersion |-> currentVersion, cacheMetadata |-> cacheMetadata,
   cacheDirExists |-> cacheDirExists, disk |-> disk]

Threw(e) == [threw |-> e]
\* A call: its name, its arguments (a, b strings, p a value) and its time.
NoOp == [name |-> "none", a |-> NoArg, b |-> NoArg, p |-> Undefined, at |-> 0]
Call(name, a, b, p, t) == [name |-> name, a |-> a, b |-> b, p |-> p, at |-> t]

\* fs.readdir(cacheDir), kept to the directories.
readdir(d) == SelectSeq(VersionOrder, LAMBDA v : d[v] # NoDir)

\* ------------------------------------------------------------ CacheManager
ensureCacheDir(s) ==
  LET v == s.currentVersion IN
  [s EXCEPT !.cacheDirExists = TRUE,
            !.disk = IF s.disk[v] = NoDir
                       THEN [s.disk EXCEPT ![v] = EmptyPartition]
                       ELSE s.disk]

saveMetadata(s) ==
  [s EXCEPT !.disk[s.currentVersion].metadata = JSONstringify(s.cacheMetadata)]

\* A loadMetadata that empties the partition when it recreates the metadata.
loadMetadataWipes(s, t) ==
  LET file == s.disk[s.currentVersion].metadata IN
  IF Readable(file)
    THEN [s EXCEPT !.cacheMetadata = file.json]
    ELSE saveMetadata(
           [s EXCEPT !.disk[s.currentVersion] = EmptyPartition,
                     !.cacheMetadata =
                       [version |-> Str(s.currentVersion),
                        createdAt |-> toISOString(t),
                        lastUpdated |-> toISOString(t),
                        components |-> EmptyObj,
                        docs |-> EmptyObj]])

loadMetadata(s, t) ==
  LET file == s.disk[s.currentVersion].metadata IN
  IF Readable(file)
    THEN [s EXCEPT !.cacheMetadata = file.json]
    ELSE saveMetadata(
           [s EXCEPT !.cacheMetadata =
              [version |-> Str(s.currentVersion),
               createdAt |-> toISOString(t),
               lastUpdated |-> toISOString(t),
               components |-> EmptyObj,
               docs |-> EmptyObj]])

initialize(s, spartanVersion, t) ==
  LET v == IF spartanVersion \in {NoArg, ""} THEN "latest" ELSE spartanVersion
      s1 == loadMetadata(ensureCacheDir([s EXCEPT !.currentVersion = v]), t)
  IN [s |-> s1, ret |-> Str(v)]

StaleMutant(cacheAge) == cacheAge >= ttlHours * 60 * 60 * 1000
isStale(cacheAge) == cacheAge > ttlHours * 60 * 60 * 1000

Miss(s) ==
  [data |-> Null, cached |-> FALSE, stale |-> FALSE, cachedAt |-> Null,
   version |-> Str(s.currentVersion)]

ProjectMutant(componentData, dataType) == componentData
\* componentData[dataType] || componentData
Project(componentData, dataType) ==
  IF Truthy(Get(componentData, dataType))
    THEN componentData[dataType]
    ELSE componentData

\* A getComponent without its catch: a failed read or parse is thrown on.
getComponentThrows(s, componentName, dataType, t) ==
  IF s.currentVersion = NullVersion THEN Threw("TypeError") ELSE
  LET file == IF s.disk[s.currentVersion] = NoDir THEN NoFile
              ELSE s.disk[s.currentVersion].components[componentName]
  IN IF file = NoFile THEN Threw("ENOENT")
     ELSE IF ~Readable(file) THEN Threw("SyntaxError") ELSE
     LET componentData == file.json
         cacheAge == t - getTime(componentData.cachedAt)
     IN [data |-> Project(componentData,
                          IF dataType = NoArg THEN "full" ELSE dataType),
         cached |-> TRUE,
         stale |-> isStale(cacheAge),
         cachedAt |-> componentData.cachedAt,
         version |-> Str(s.currentVersion)]

getComponent(s, componentName, dataType, t) ==
  IF s.currentVersion = NullVersion THEN Threw("TypeError") ELSE
  LET file == IF s.disk[s.currentVersion] = NoDir THEN NoFile
              ELSE s.disk[s.currentVersion].components[componentName]
  IN IF ~Readable(file) THEN Miss(s) ELSE
     LET componentData == file.json
         cacheAge == t - getTime(componentData.cachedAt)
     IN [data |-> Project(componentData,
                          IF dataType = NoArg THEN "full" ELSE dataType),
         cached |-> TRUE,
         stale |-> isStale(cacheAge),
         cachedAt |-> componentData.cachedAt,
         version |-> Str(s.currentVersion)]

\* A setComponent that builds its path from "latest", not the active version.
setComponentLatest(s, componentName, data, t) ==
  IF s.currentVersion = NullVersion THEN [s |-> s, ret |-> Threw("TypeError")]
  ELSE IF s.disk["latest"] = NoDir THEN [s |-> s, ret |-> Threw("ENOENT")]
  ELSE
  LET cacheEntry == [componentName |-> Str(componentName),
                     version |-> Str(s.currentVersion),
                     cachedAt |-> toISOString(t)] @@ data
      s1 == [s EXCEPT !.disk["latest"].components[componentName] =
                         JSONstringify(cacheEntry)]
      s2 == [s1 EXCEPT !.cacheMetadata.components =
                          (componentName :>
                             [cachedAt |-> cacheEntry.cachedAt,
                              size |-> JSONlength(cacheEntry)]) @@ @,
                       !.cacheMetadata.lastUpdated = toISOString(t)]
  IN [s |-> saveMetadata(s2), ret |-> Undefined]

\* A setComponent that forgets to save the metadata it updated.
setComponentNoSave(s, componentName, data, t) ==
  IF s.currentVersion = NullVersion THEN [s |-> s, ret |-> Threw("TypeError")]
  ELSE IF s.disk[s.currentVersion] = NoDir THEN [s |-> s, ret |-> Threw("ENOENT")]
  ELSE
  LET cacheEntry == [componentName |-> Str(componentName),
                     version |-> Str(s.currentVersion),
                     cachedAt |-> toISOString(t)] @@ data
      s1 == [s EXCEPT !.disk[s.currentVersion].components[componentName] =
                         JSONstringify(cacheEntry)]
      s2 == [s1 EXCEPT !.cacheMetadata.components =
                          (componentName :>
                             [cachedAt |-> cacheEntry.cachedAt,
                              size |-> JSONlength(cacheEntry)]) @@ @,
                       !.cacheMetadata.lastUpdated = toISOString(t)]
  IN [s |-> s2, ret |-> Undefined]

setComponent(s, componentName, data, t) ==
  IF s.currentVersion = NullVersion THEN [s |-> s, ret |-> Threw("TypeError")]
  ELSE IF s.disk[s.currentVersion] = NoDir THEN [s |-> s, ret |-> Threw("ENOENT")]
  ELSE
  LET cacheEntry == [componentName |-> Str(componentName),
                     version |-> Str(s.currentVersion),
                     cachedAt |-> toISOString(t)] @@ data
      s1 == [s EXCEPT !.disk[s.currentVersion].components[componentName] =
                         JSONstringify(cacheEntry)]
      s2 == [s1 EXCEPT !.cacheMetadata.components =
                          (componentName :>
                             [cachedAt |-> cacheEntry.cachedAt,
                              size |-> JSONlength(cacheEntry)]) @@ @,
                       !.cacheMetadata.lastUpdated = toISOString(t)]
  IN [s |-> saveMetadata(s2), ret |-> Undefined]

getDocs(s, topic, t) ==
  IF s.currentVersion = NullVersion THEN Threw("TypeError") ELSE
  LET file == IF s.disk[s.currentVersion] = NoDir THEN NoFile
              ELSE s.disk[s.currentVersion].docs[topic]
  IN IF ~Readable(file) THEN Miss(s) ELSE
     LET docsData == file.json
         cacheAge == t - getTime(docsData.cachedAt)
     IN [data |-> Get(docsData, "content"),
         cached |-> TRUE,
         stale |-> isStale(cacheAge),
         cachedAt |-> docsData.cachedAt,
         version |-> Str(s.currentVersion)]

\* A setDocs that keeps the cachedAt of the entry it overwrites.
setDocsKeepsDate(s, topic, content, t) ==
  IF s.currentVersion = NullVersion THEN [s |-> s, ret |-> Threw("TypeError")]
  ELSE IF s.disk[s.currentVersion] = NoDir THEN [s |-> s, ret |-> Threw("ENOENT")]
  ELSE
  LET old == s.disk[s.currentVersion].docs[topic]
      cacheEntry == [topic |-> Str(topic),
                     content |-> Str(content),
                     version |-> Str(s.currentVersion),
                     cachedAt |-> IF Readable(old) THEN old.json.cachedAt
                                  ELSE toISOString(t)]
      s1 == [s EXCEPT !.disk[s.currentVersion].docs[topic] =
                         JSONstringify(cacheEntry)]
  IN [s |-> s1, ret |-> Undefined]
setDocs(s, topic, content, t) ==
  IF s.currentVersion = NullVersion THEN [s |-> s, ret |-> Threw("TypeError")]
  ELSE IF s.disk[s.currentVersion] = NoDir THEN [s |-> s, ret |-> Threw("ENOENT")]
  ELSE
  LET cacheEntry == [topic |-> Str(topic),
                     content |-> Str(content),
                     version |-> Str(s.currentVersion),
                     cachedAt |-> toISOString(t)]
      s1 == [s EXCEPT !.disk[s.currentVersion].docs[topic] =
                         JSONstringify(cacheEntry)]
      s2 == [s1 EXCEPT !.cacheMetadata.docs =
                          (topic :> [cachedAt |-> cacheEntry.cachedAt,
                                     size |-> JSONlength(cacheEntry)]) @@ @,
                       !.cacheMetadata.lastUpdated = toISOString(t)]
  IN [s |-> saveMetadata(s2), ret |-> Undefined]

\* A clearVersion that removes the entry files and keeps metadata.json.
clearVersionKeepsMetadata(s, t) ==
  IF s.currentVersion = NullVersion THEN [s |-> s, ret |-> Threw("TypeError")]
  ELSE
  [s |-> [s EXCEPT !.disk[s.currentVersion].components = [k \in Keys |-> NoFile],
                   !.disk[s.currentVersion].docs = [k \in Topics |-> NoFile]],
   ret |-> [success |-> TRUE, version |-> Str(s.currentVersion)]]

\* A clearVersion that removes the directory and does not recreate it.
clearVersionNoRecreate(s, t) ==
  IF s.currentVersion = NullVersion THEN [s |-> s, ret |-> Threw("TypeError")]
  ELSE
  [s |-> [s EXCEPT !.disk[s.currentVersion] = NoDir],
   ret |-> [success |-> TRUE, version |-> Str(s.currentVersion)]]

clearVersion(s, t) ==
  IF s.currentVersion = NullVersion THEN [s |-> s, ret |-> Threw("TypeError")]
  ELSE
  LET s1 == [s EXCEPT !.disk[s.currentVersion] = NoDir]
      s2 == loadMetadata(ensureCacheDir(s1), t)
  IN [s |-> s2,
      ret |-> [success |-> TRUE, version |-> Str(s.currentVersion)]]

\* A clearAll that removes the active version's directory only.
clearAllActiveOnly(s, t) ==
  IF ~s.cacheDirExists \/ s.currentVersion = NullVersion
    THEN [s |-> s, ret |-> [success |-> FALSE, versions |-> <<>>]]
    ELSE [s |-> loadMetadata(
                  ensureCacheDir([s EXCEPT !.disk[s.currentVersion] = NoDir]), t),
          ret |-> [success |-> TRUE, versions |-> <<s.currentVersion>>]]

clearAll(s, t) ==
  IF ~s.cacheDirExists
    THEN [s |-> s, ret |-> [success |-> FALSE, versions |-> <<>>]]
  ELSE
  LET clearedVersions == readdir(s.disk)
      s1 == [s EXCEPT !.disk = [v \in Versions |-> NoDir]]
  IN IF s.currentVersion = NullVersion
       THEN [s |-> s1, ret |-> [success |-> FALSE, versions |-> <<>>]]
       ELSE [s |-> loadMetadata(ensureCacheDir(s1), t),
             ret |-> [success |-> TRUE, versions |-> clearedVersions]]

\* One record of getStats().versions, or none for a directory whose
\* metadata.json is missing or unreadable.
versionStat(s, version) ==
  LET file == s.disk[version].metadata IN
  IF ~Readable(file) THEN <<>> ELSE
  LET metadata == file.json IN
  << [version |-> version,
      componentCount |-> Cardinality(DOMAIN metadata.components),
      docsCount |-> Cardinality(DOMAIN metadata.docs),
      createdAt |-> metadata.createdAt,
      lastUpdated |-> metadata.lastUpdated,
      isCurrent |-> (version = s.currentVersion)] >>

RECURSIVE statsOf(_, _)
statsOf(s, versions) ==
  IF versions = <<>> THEN <<>>
  ELSE versionStat(s, Head(versions)) \o statsOf(s, Tail(versions))

getStats(s) ==
  IF ~s.cacheDirExists
    THEN [currentVersion |-> s.currentVersion, totalVersions |-> 0,
          versions |-> <<>>, error |-> "ENOENT"]
    ELSE LET versionStats == statsOf(s, readdir(s.disk)) IN
         [currentVersion |-> s.currentVersion,
          totalVersions |-> Len(versionStats),
          versions |-> versionStats]

listVersions(s) ==
  IF ~s.cacheDirExists THEN <<>> ELSE
  LET versions == readdir(s.disk) IN
  [i \in 1..Len(versions) |->
     [version |-> versions[i],
      isCurrent |-> (versions[i] = s.currentVersion)]]

switchVersion(s, version, t) ==
  LET s1 == loadMetadata(ensureCacheDir([s EXCEPT !.currentVersion = version]), t)
  IN [s |-> s1, ret |-> [success |-> TRUE, version |-> Str(version)]]

\* ------------------------------------------------------------ fetchContent
SPARTAN_COMPONENTS_BASE == "https://www.spartan.ng/components"
SPARTAN_DOCS_BASE == "https://www.spartan.ng/documentation"
ComponentUrl(name) == SPARTAN_COMPONENTS_BASE \o "/" \o name
DocsUrl(topic) == SPARTAN_DOCS_BASE \o "/" \o topic
Urls == {ComponentUrl("button"), DocsUrl("installation")}
Formats == {"html", "text"}
\* What the site serves: a page may change between two requests.
PageY == "<p>Y &amp; Z</p>"
Pages == {PageX, PageY}

\* ------------------------------------------------- HTML as token sequences
\* Markup is a sequence of tokens: a tag, an entity, or a piece of text that
\* holds none of "<", "&" and newline; "\n" is the newline.
HeadingOpen == {"<h1>", "<h2>", "<h3>", "<h4>", "<h5>", "<h6>"}
HeadingClose == {"</h1>", "</h2>", "</h3>", "</h4>", "</h5>", "</h6>"}
\* </(p|div|section|article|li|h[1-6]|br|pre)>
BlockClose ==
  HeadingClose \cup {"</p>", "</div>", "</section>", "</article>", "</li>",
                     "</br>", "</pre>"}
\* <(br|hr)\s*/>
SelfBreak == {"<br/>", "<hr/>"}
Tags ==
  HeadingOpen \cup BlockClose \cup SelfBreak
    \cup {"<p>", "<div>", "<li>", "<b>", "</b>", "<span>", "</span>", "<a>",
          "</a>", "<br>", "<pre>", "<code>", "</code>", "<table>", "</table>",
          "<tr>", "</tr>", "<td>", "</td>", "<th>", "</th>", "<script>",
          "</script>", "<style>", "</style>"}
Whitespace == {" ", "\n", "\t"}
Entities == {"&nbsp;", "&amp;", "&lt;", "&gt;", "&quot;", "&#39;"}
decode(tok) ==
  CASE tok = "&nbsp;" -> " "
    [] tok = "&amp;" -> "&"
    [] tok = "&lt;" -> "<"
    [] tok = "&gt;" -> ">"
    [] tok = "&quot;" -> "\""
    [] tok = "&#39;" -> "'"
    [] OTHER -> tok

\* The least number of I, or 0 when it is empty.
Least(I) == IF I = {} THEN 0 ELSE CHOOSE k \in I : \A j \in I : k <= j
\* The least index >= i of h whose token is in S, or 0.
IndexFrom(h, S, i) == Least({k \in i..Len(h) : h[k] \in S})

\* h.replace(/<open[\s\S]*?<\/close>/gi, "")
RECURSIVE removeElements(_, _, _)
removeElements(h, open, close) ==
  LET i == IndexFrom(h, {open}, 1)
      j == IF i = 0 THEN 0 ELSE IndexFrom(h, {close}, i + 1)
  IN IF i = 0 \/ j = 0 THEN h
     ELSE SubSeq(h, 1, i - 1)
            \o removeElements(SubSeq(h, j + 1, Len(h)), open, close)

\* text.replace(/\n{3,}/g, "\n\n"): of a run of newlines the first two stay.
collapseNewlines(text) ==
  LET keep == SelectSeq([i \in 1..Len(text) |-> i],
                        LAMBDA i : ~(/\ i >= 3
                                     /\ text[i] = "\n"
                                     /\ text[i - 1] = "\n"
                                     /\ text[i - 2] = "\n"))
  IN [n \in 1..Len(keep) |-> text[keep[n]]]

\* text.trim()
trim(text) ==
  LET I == {i \in 1..Len(text) : text[i] \notin Whitespace}
  IN IF I = {} THEN <<>>
     ELSE SubSeq(text, Least(I), CHOOSE k \in I : \A j \in I : k >= j)

\* htmlToText on markup: scripts and styles removed, closing block tags and
\* <br/> turned into newlines, the other tags stripped, entities decoded,
\* runs of three or more newlines collapsed to two, the result trimmed.
htmlToTextTokens(h) ==
  LET withoutScripts == removeElements(h, "<script>", "</script>")
      withoutStyles == removeElements(withoutScripts, "<style>", "</style>")
      withBreaks == [i \in 1..Len(withoutStyles) |->
                       IF withoutStyles[i] \in BlockClose \cup SelfBreak
                         THEN "\n" ELSE withoutStyles[i]]
      stripped == SelectSeq(withBreaks, LAMBDA tok : tok \notin Tags)
      decoded == [i \in 1..Len(stripped) |-> decode(stripped[i])]
  IN trim(collapseNewlines(decoded))

\* code.split("\n").filter((line) => line.trim().length > 0).length: the
\* number of tokens that are the first non-blank one of their line.
nonBlankLines(code) ==
  Cardinality({i \in 1..Len(code) :
                 /\ code[i] \notin Whitespace
                 /\ \A k \in 1..(i - 1) :
                      code[k] \in Whitespace
                        \/ \E m \in (k + 1)..(i - 1) : code[m] = "\n"})

\* The matches of /<pre[^>]*><code[^>]*>[\s\S]*?<\/code><\/pre>/gi from
\* index i on.
preCodeFrom(h, i) ==
  Least({k \in i..(Len(h) - 1) : h[k] = "<pre>" /\ h[k + 1] = "<code>"})
codePreFrom(h, j) ==
  Least({k \in j..(Len(h) - 1) : h[k] = "</code>" /\ h[k + 1] = "</pre>"})
RECURSIVE preCodeMatches(_, _)
preCodeMatches(h, from) ==
  LET i == preCodeFrom(h, from)
      j == IF i = 0 THEN 0 ELSE codePreFrom(h, i + 2)
  IN IF i = 0 \/ j = 0 THEN <<>>
     ELSE <<SubSeq(h, i, j + 1)>> \o preCodeMatches(h, j + 2)
\* The matches of /<code[^>]*>[\s\S]*?<\/code>/gi from index `from` on.
RECURSIVE codeMatches(_, _)
codeMatches(h, from) ==
  LET i == IndexFrom(h, {"<code>"}, from)
      j == IF i = 0 THEN 0 ELSE IndexFrom(h, {"</code>"}, i + 1)
  IN IF i = 0 \/ j = 0 THEN <<>>
     ELSE <<SubSeq(h, i, j)>> \o codeMatches(h, j + 1)

\* A pushMatchText that keeps the blocks of two lines as well.
pushMatchTextFromTwo(blocks, m) ==
  LET code == htmlToTextTokens(SubSeq(m, 2, Len(m) - 1))
  IN IF nonBlankLines(code) >= 2 THEN Append(blocks, code) ELSE blocks
\* pushMatchText: the match without its first and last tag, as text, kept
\* when it has more than two non-blank lines.
pushMatchText(blocks, m) ==
  LET a == IF m # <<>> /\ Head(m) \in Tags THEN Tail(m) ELSE m
      inner == IF a # <<>> /\ a[Len(a)] \in Tags
                 THEN SubSeq(a, 1, Len(a) - 1) ELSE a
      code == htmlToTextTokens(inner)
      lines == nonBlankLines(code)
  IN IF lines = 1 /\ \E i \in 1..Len(code) : code[i] = "import" THEN blocks
     ELSE IF lines > 2 THEN Append(blocks, code)
     ELSE blocks

RECURSIVE pushAll(_, _)
pushAll(blocks, ms) ==
  IF ms = <<>> THEN blocks
  ELSE pushAll(pushMatchText(blocks, Head(ms)), Tail(ms))

extractCodeBlocks(h) ==
  pushAll(pushAll(<<>>, preCodeMatches(h, 1)), codeMatches(h, 1))

\* The /i spellings of the section titles the pages of the model use.
BrainTitles == {"Brain API", "brain api"}
HelmTitles == {"Helm API", "helm api"}
PageNavTitles == {"On this page", "on this page"}
\* The texts that match /(Brn|Hlm)\w+/i here.
ComponentNames == {"BrnButton", "BrnDialog", "HlmButton", "hlmbutton"}

\* The least index >= i where <h[1-6][^>]*>T<\/h[1-6]> starts, T a text of
\* Titles, or 0.
headingFrom(h, Titles, i) ==
  Least({k \in i..(Len(h) - 2) :
           /\ h[k] \in HeadingOpen
           /\ h[k + 1] \in Titles
           /\ h[k + 2] \in HeadingClose})

\* The least index >= i where the lookahead
\* (?=<h[1-6][^>]*>(?:T|$)|$) holds, T starting a text of Titles.
sectionEnd(h, Titles, i) ==
  LET e == Least({k \in i..Len(h) :
                    /\ h[k] \in HeadingOpen
                    /\ (k = Len(h) \/ h[k + 1] \in Titles)})
  IN IF e = 0 THEN Len(h) + 1 ELSE e

\* html.match(/<h..>Title<\/h..>([\s\S]*?)(?=...)/i): group 1, or Null.
sectionMatch(h, Titles, EndTitles) ==
  LET i == headingFrom(h, Titles, 1)
  IN IF i = 0 THEN Null
     ELSE [section |-> SubSeq(h, i + 3, sectionEnd(h, EndTitles, i + 3) - 1)]

\* The matches of /<tr[^>]*>([\s\S]*?)<\/tr>/gi: group 1 of each.
RECURSIVE rowMatches(_, _)
rowMatches(h, from) ==
  LET i == IndexFrom(h, {"<tr>"}, from)
      j == IF i = 0 THEN 0 ELSE IndexFrom(h, {"</tr>"}, i + 1)
  IN IF i = 0 \/ j = 0 THEN <<>>
     ELSE <<SubSeq(h, i + 1, j - 1)>> \o rowMatches(h, j + 1)

\* The matches of /<t[dh][^>]*>([\s\S]*?)<\/t[dh]>/gi, each as
\* htmlToText(group 1).trim().
RECURSIVE cellMatches(_, _)
cellMatches(h, from) ==
  LET i == IndexFrom(h, {"<td>", "<th>"}, from)
      j == IF i = 0 THEN 0 ELSE IndexFrom(h, {"</td>", "</th>"}, i + 1)
  IN IF i = 0 \/ j = 0 THEN <<>>
     ELSE <<trim(htmlToTextTokens(SubSeq(h, i + 1, j - 1)))>>
            \o cellMatches(h, j + 1)

\* The record pushed for a data row with these cells, if any.
propOfRowFromTwo(cells, tableType) ==
  IF Len(cells) < 2 THEN <<>>
  ELSE <<[prop |-> cells[1], type |-> cells[2],
          default |-> IF Len(cells) >= 3 THEN cells[3] ELSE <<>>,
          description |-> IF Len(cells) >= 4 THEN cells[4] ELSE <<>>]>>
propOfRow(cells, tableType) ==
  IF Len(cells) < 3 THEN <<>>
  ELSE IF tableType = "Inputs"
    THEN <<[prop |-> cells[1], type |-> cells[2], default |-> cells[3],
            description |-> IF Len(cells) >= 4 THEN cells[4] ELSE <<>>]>>
  ELSE <<[prop |-> cells[1], type |-> cells[2], description |-> cells[3]]>>

RECURSIVE propsOfRows(_, _)
propsOfRows(rows, tableType) ==
  IF rows = <<>> THEN <<>>
  ELSE propOfRow(cellMatches(Head(rows), 1), tableType)
         \o propsOfRows(Tail(rows), tableType)

\* extractPropsFromTable(html, tableType): the rows after the first one of
\* the section under the heading tableType, up to the next heading.
extractPropsFromTable(h, tableType) ==
  LET Titles == IF tableType = "Inputs" THEN {"Inputs", "inputs"}
                ELSE {"Outputs", "outputs"}
      i == headingFrom(h, Titles, 1)
  IN IF i = 0 THEN <<>>
     ELSE LET k == IndexFrom(h, HeadingOpen, i + 3)
              tableSection == SubSeq(h, i + 3, IF k = 0 THEN Len(h) ELSE k - 1)
              rows == rowMatches(tableSection, 1)
          IN IF rows = <<>> THEN <<>> ELSE propsOfRows(Tail(rows), tableType)

\* content.match(/Selector:\s*([^\n<]+)/i)[1].trim(), for a "Selector:"
\* that is followed by its value; the empty text otherwise.
selectorOf(content) ==
  LET i == IndexFrom(content, {"Selector:", "selector:"}, 1)
      j == IF i = 0 THEN 0
           ELSE IndexFrom(content, {content[n] : n \in 1..Len(content)}
                                     \ Whitespace, i + 1)
      k == IF j = 0 THEN 0 ELSE IndexFrom(content, Tags \cup {"\n"}, j)
  IN IF j = 0 \/ k = j THEN <<>>
     ELSE trim(SubSeq(content, j, IF k = 0 THEN Len(content) ELSE k - 1))

\* extractAPIComponents(html): one record per (Brn|Hlm) heading, its content
\* running to the next such heading.
RECURSIVE extractAPIComponentsFrom(_, _)
extractAPIComponentsFrom(h, from) ==
  LET i == headingFrom(h, ComponentNames, from)
  IN IF i = 0 THEN <<>>
     ELSE LET k == headingFrom(h, ComponentNames, i + 3)
              end == IF k = 0 THEN Len(h) ELSE k - 1
              content == SubSeq(h, i + 3, end)
          IN <<[name |-> h[i + 1],
                selector |-> selectorOf(content),
                inputs |-> extractPropsFromTable(content, "Inputs"),
                outputs |-> extractPropsFromTable(content, "Outputs")]>>
               \o extractAPIComponentsFrom(h, end + 1)
extractAPIComponents(h) == extractAPIComponentsFrom(h, 1)

includes(code, word) == \E i \in 1..Len(code) : code[i] = word
detectLanguage(code) ==
  IF includes(code, "import") /\ includes(code, "Component") THEN "typescript"
  ELSE IF includes(code, "import") /\ includes(code, "from") THEN "javascript"
  ELSE IF includes(code, "<") /\ includes(code, ">") /\ includes(code, "hlm")
    THEN "html"
  ELSE IF includes(code, "npm") \/ includes(code, "npx") \/ includes(code, "ng ")
    THEN "bash"
  ELSE "typescript"

\* An extractAPIInfo that reads the whole page when it has no API section.
extractAPIInfoWholePage(h) ==
  LET brainAPIMatch == sectionMatch(h, BrainTitles, HelmTitles \cup PageNavTitles)
  IN [brainAPI |-> IF brainAPIMatch = Null THEN extractAPIComponents(h)
                   ELSE extractAPIComponents(brainAPIMatch.section),
      helmAPI |-> <<>>,
      examples |-> <<>>]
extractAPIInfo(h) ==
  LET brainAPIMatch == sectionMatch(h, BrainTitles, HelmTitles \cup PageNavTitles)
      helmAPIMatch == sectionMatch(h, HelmTitles, PageNavTitles)
      codeBlocks == extractCodeBlocks(h)
  IN [brainAPI |-> IF brainAPIMatch = Null THEN <<>>
                   ELSE extractAPIComponents(brainAPIMatch.section),
      helmAPI |-> IF helmAPIMatch = Null THEN <<>>
                  ELSE extractAPIComponents(helmAPIMatch.section),
      examples |-> [i \in 1..(IF Len(codeBlocks) < 10 THEN Len(codeBlocks) ELSE 10)
                      |-> [title |-> i, code |-> codeBlocks[i],
                           language |-> detectLanguage(codeBlocks[i])]]]

\* An extraction function that has not been called.
IdleEx == [pc |-> "idle", fn |-> "", input |-> Undefined, html |-> <<>>,
           out |-> Undefined]

\* The lines code blocks are made of here, and the contents of up to
\* MaxLines of them.
CodeLines ==
  {<<>>, <<" ">>, <<"a">>, <<"<b>", "a", "</b>">>, <<"&lt;", "a">>,
   <<"import">>}
RECURSIVE joinLines(_)
joinLines(ls) ==
  IF ls = <<>> THEN <<>>
  ELSE IF Len(ls) = 1 THEN ls[1]
  ELSE ls[1] \o <<"\n">> \o joinLines(Tail(ls))
CodeContents ==
  {joinLines(ls) : ls \in UNION {[1..n -> CodeLines] : n \in 0..MaxLines}}
\* A page holding one code block, inline or inside <pre>.
CodePage(kind, content) ==
  IF kind = "pre" THEN <<"<pre>", "<code>">> \o content \o <<"</code>", "</pre>">>
  ELSE <<"<p>", "<code>">> \o content \o <<"</code>", "</p>">>

\* Table cells: their markup and the text it shows.
CellA == [markup |-> <<"a">>, text |-> <<"a">>]
CellB == [markup |-> <<" ", "<b>", "b", "</b>", "\n">>, text |-> <<"b">>]
CellEmpty == [markup |-> <<>>, text |-> <<>>]
\* Data rows of zero to five cells.
RowShapes ==
  {<<>>, <<CellA>>, <<CellA, CellB>>, <<CellA, CellB, CellA>>,
   <<CellB, CellEmpty, CellA>>, <<CellA, CellB, CellA, CellB>>,
   <<CellA, CellB, CellA, CellEmpty>>, <<CellA, CellB, CellA, CellB, CellA>>}
RECURSIVE cellsMarkup(_, _)
cellsMarkup(cells, tag) ==
  IF cells = <<>> THEN <<>>
  ELSE <<"<" \o tag \o ">">> \o Head(cells).markup \o <<"</" \o tag \o ">">>
         \o cellsMarkup(Tail(cells), tag)
rowMarkup(cells, tag) == <<"<tr>">> \o cellsMarkup(cells, tag) \o <<"</tr>">>
HeaderRow ==
  rowMarkup(<<[markup |-> <<"Prop">>], [markup |-> <<"Type">>],
              [markup |-> <<"Default">>], [markup |-> <<"Description">>]>>, "th")
RECURSIVE rowsMarkup(_)
rowsMarkup(rows) ==
  IF rows = <<>> THEN <<>>
  ELSE rowMarkup(Head(rows), "td") \o <<"\n">> \o rowsMarkup(Tail(rows))
tableMarkup(title, rows) ==
  <<"<h4>", title, "</h4>", "<table>">> \o HeaderRow \o rowsMarkup(rows)
    \o <<"</table>">>
\* What may follow the Inputs table of the Brain API section.
TableSuffixes ==
  {<<>>,
   tableMarkup("Outputs", <<<<CellB, CellA, CellB>>>>),
   <<"<h2>", "Helm API", "</h2>", "<h3>", "HlmButton", "</h3>">>
     \o tableMarkup("Inputs", <<<<CellB, CellB, CellB>>>>)}
\* A page with a Brain API section of one component and its Inputs table.
TablePage(rows, suffix) ==
  <<"<h1>", "Button", "</h1>", "<h2>", "Brain API", "</h2>",
    "<h3>", "BrnButton", "</h3>",
    "<p>", "Selector:", " ", "[brnButton]", "</p>">>
    \o tableMarkup("Inputs", rows) \o suffix
TableRows == UNION {[1..n -> RowShapes] : n \in 0..MaxRows}

\* The blocks of the pages that have no API heading: a component heading
\* with an Inputs table, the words "Brain API" in a paragraph, the page
\* navigation, an example with its code, a lone Helm component heading.
PlainBlocks ==
  {<<"<h3>", "BrnButton", "</h3>">>
     \o tableMarkup("Inputs", <<<<CellA, CellB, CellA>>>>),
   <<"<p>", "Brain API", "</p>">>,
   <<"<h2>", "On this page", "</h2>">>,
   <<"<h2>", "Examples", "</h2>">>
     \o CodePage("pre", <<"import", "\n", "a", "\n", "a">>),
   <<"<h3>", "HlmButton", "</h3>", "<p>", "Helm API", "</p>">>}
RECURSIVE concat(_)
concat(bs) == IF bs = <<>> THEN <<>> ELSE Head(bs) \o concat(Tail(bs))
PlainPages ==
  {concat(bs) : bs \in UNION {[1..n -> PlainBlocks] : n \in 0..MaxBlocks}}

\* The headings and paragraphs of the pages that have API sections, each
\* of them at most once in a page, in any order.
SectionBlocks ==
  {<<"<h2>", "Brain API", "</h2>">>, <<"<h2>", "Helm API", "</h2>">>,
   <<"<h2>", "On this page", "</h2>">>, <<"<h3>", "BrnButton", "</h3>">>,
   <<"<h3>", "BrnDialog", "</h3>">>, <<"<h3>", "HlmButton", "</h3>">>,
   <<"<p>", "Selector:", " ", "[x]", "</p>">>}
SectionPages ==
  {concat(bs) : bs \in UNION {{f \in [1..n -> SectionBlocks] :
                                 \A i, j \in 1..n : f[i] = f[j] => i = j} :
                              n \in 0..MaxSections}}

\* The string a token sequence stands for.
RECURSIVE Text(_)
Text(h) == IF h = <<>> THEN "" ELSE Head(h) \o Text(Tail(h))
\* The tokens of the pages the site serves.
TokensOf(html) ==
  CASE html = PageX -> <<"<h1>", "X", "</h1>">>
    [] html = PageY -> <<"<p>", "Y", " ", "&amp;", " ", "Z", "</p>">>
\* htmlToText on the pages of the model.
htmlToText(html) ==
  IF html \in Pages THEN Text(htmlToTextTokens(TokensOf(html))) ELSE html
\* What fetch(url) resolves or rejects with.
Responses ==
  {[kind |-> "ok", html |-> page] : page \in Pages}
    \cup {[kind |-> "status", html |-> ""], [kind |-> "reject", html |-> ""]}

Callers == {1, 2}
IdleCall ==
  [pc |-> "idle", url |-> "", format |-> "", noCache |-> FALSE, now |-> 0,
   net |-> FALSE, ok |-> FALSE, result |-> "", seq |-> 0]

cacheKey(url, format) == url \o "::" \o format

\* A lookup that still serves an entry whose age equals the TTL.
cacheHitInclusive(cache, url, format, noCache, t) ==
  /\ ~noCache
  /\ cacheKey(url, format) \in DOMAIN cache
  /\ t - cache[cacheKey(url, format)].timestampMs <= ttlMs
\* The lookup at the head of fetchContent: an entry younger than the TTL.
cacheHit(cache, url, format, noCache, t) ==
  /\ ~noCache
  /\ cacheKey(url, format) \in DOMAIN cache
  /\ t - cache[cacheKey(url, format)].timestampMs < ttlMs

\* A fetchContent that writes the Map for a bypassing call too.
cacheStoreAlways(cache, call, result) ==
  (cacheKey(call.url, call.format) :>
     [content |-> result, timestampMs |-> call.now]) @@ cache
\* A fetchContent that never writes the Map.
cacheStoreNever(cache, call, result) == cache
\* if (!noCache) responseCache.set(cacheKey, {content, timestampMs: now})
cacheStore(cache, call, result) ==
  IF call.noCache THEN cache
  ELSE (cacheKey(call.url, call.format) :>
          [content |-> result, timestampMs |-> call.now]) @@ cache

\* fetchContent up to its first await: a hit returns, a miss calls fetch.
fetchContentStart(cache, url, format, noCache, t, seq) ==
  IF cacheHit(cache, url, format, noCache, t)
    THEN [pc |-> "done", url |-> url, format |-> format, noCache |-> noCache,
          now |-> t, net |-> FALSE, ok |-> TRUE,
          result |-> cache[cacheKey(url, format)].content, seq |-> seq]
    ELSE [pc |-> "awaiting", url |-> url, format |-> format,
          noCache |-> noCache, now |-> t, net |-> TRUE, ok |-> FALSE,
          result |-> "", seq |-> seq]

\* A fetchContent that drops the entry of its key when the fetch fails.
fetchContentResumeEvict(cache, call, response) ==
  IF response.kind # "ok"
    THEN [cache |-> [k \in DOMAIN cache \ {cacheKey(call.url, call.format)}
                       |-> cache[k]],
          call |-> [call EXCEPT !.pc = "done", !.ok = FALSE,
                                !.result = "fetch failed"]]
    ELSE LET result == IF call.format = "text" THEN htmlToText(response.html)
                       ELSE response.html
         IN [cache |-> cacheStore(cache, call, result),
             call |-> [call EXCEPT !.pc = "done", !.ok = TRUE,
                                   !.result = result]]
\* fetchContent from the response on: throw, or convert, store and return.
fetchContentResume(cache, call, response) ==
  IF response.kind # "ok"
    THEN [cache |-> cache,
          call |-> [call EXCEPT !.pc = "done", !.ok = FALSE,
                                !.result =
                                   IF response.kind = "status"
                                     THEN "Failed to fetch " \o call.url \o ": 404 Not Found"
                                     ELSE "fetch failed"]]
    ELSE LET result == IF call.format = "text" THEN htmlToText(response.html)
                       ELSE response.html
         IN [cache |-> cacheStore(cache, call, result),
             call |-> [call EXCEPT !.pc = "done", !.ok = TRUE,
                                   !.result = result]]

\* --------------------------------------------------------------- warmCache
\* The first topic of the list.
DOCUMENTATION_TOPICS == <<"installation">>
\* setTimeout(resolve, 100)
RateLimitMs == 100
\* The values extractAPIInfo(html) and extractCodeBlocks(html) return, as
\* functions of the page.
apiOf(html) == [apiOf |-> html]
examplesOf(html) == [examplesOf |-> html]
\* The payload warmComponent passes to setComponent.
ComponentPayload(html, url) ==
  [html |-> Str(html), api |-> apiOf(html), examples |-> examplesOf(html),
   full |-> [html |-> Str(html), api |-> apiOf(html),
             examples |-> examplesOf(html), url |-> Str(url)]]
\* The component lists warmCache is called with.
Lists == UNION {[1..n -> Keys] : n \in 0..MaxList}
\* Which fs call of setComponent/setDocs rejects, if any.
WriteOutcomes == {"ok", "writeFile", "saveMetadata"}

NoResults ==
  [version |-> NullVersion,
   components |-> [total |-> 0, success |-> 0, failed |-> 0, errors |-> <<>>],
   docs |-> [total |-> 0, success |-> 0, failed |-> 0, errors |-> <<>>],
   duration |-> 0]
IdleWarm ==
  [pc |-> "idle", components |-> <<>>, includeDocs |-> FALSE, i |-> 0,
   startTime |-> 0, results |-> NoResults, call |-> IdleCall,
   attempted |-> <<>>, outcomes |-> <<>>, progress |-> <<>>, log |-> <<>>]

\* A warmCache that counts a failure without recording its error.
warmRecordNoError(results, component, result) ==
  IF result.success
    THEN [results EXCEPT !.components.success = @ + 1]
    ELSE [results EXCEPT !.components.failed = @ + 1]
\* if (result.success) success++ else { failed++; errors.push(...) }
warmRecord(results, component, result) ==
  IF result.success
    THEN [results EXCEPT !.components.success = @ + 1]
    ELSE [results EXCEPT !.components.failed = @ + 1,
                         !.components.errors =
                            Append(@, [component |-> component,
                                       error |-> result.error])]

warmRecordDocs(results, topic, result) ==
  IF result.success
    THEN [results EXCEPT !.docs.success = @ + 1]
    ELSE [results EXCEPT !.docs.failed = @ + 1,
                         !.docs.errors =
                            Append(@, [topic |-> topic, error |-> result.error])]

\* A warmCache whose component loop stops one short of the list.
warmLoopStopsShort(w, i, cache, t) ==
  LET n == Len(w.components) IN
  IF i + 1 < n
    THEN [w EXCEPT !.pc = "fetch", !.i = i,
                   !.call = fetchContentStart(cache,
                              ComponentUrl(w.components[i + 1]), "html", TRUE, t, 0),
                   !.attempted = Append(@, w.components[i + 1]),
                   !.log = Append(@, [e |-> "fetch", i |-> i + 1, t |-> t])]
  ELSE [w EXCEPT !.pc = "done", !.i = i,
                 !.results.duration = t - w.startTime]
\* The loop heads of warmCache: start the fetch of component i, or of topic
\* i - Len(components) once the components are done, or return.
warmLoop(w, i, cache, t) ==
  LET n == Len(w.components) IN
  IF i < n
    THEN [w EXCEPT !.pc = "fetch", !.i = i,
                   !.call = fetchContentStart(cache,
                              ComponentUrl(w.components[i + 1]), "html", TRUE, t, 0),
                   !.attempted = Append(@, w.components[i + 1]),
                   !.log = Append(@, [e |-> "fetch", i |-> i + 1, t |-> t])]
  ELSE IF w.includeDocs /\ i - n < Len(DOCUMENTATION_TOPICS)
    THEN [w EXCEPT !.pc = "docFetch", !.i = i,
                   !.call = fetchContentStart(cache,
                              DocsUrl(DOCUMENTATION_TOPICS[i - n + 1]), "html", TRUE, t, 0),
                   !.attempted = Append(@, DOCUMENTATION_TOPICS[i - n + 1]),
                   !.log = Append(@, [e |-> "docFetch", i |-> i - n + 1, t |-> t])]
  ELSE [w EXCEPT !.pc = "done", !.i = i,
                 !.results.duration = t - w.startTime]

\* warmCache(options) up to its first await.
warmCache(components, includeDocs, version, cache, t) ==
  warmLoop([IdleWarm EXCEPT
              !.components = components,
              !.includeDocs = includeDocs,
              !.startTime = t,
              !.results.version = version,
              !.results.components.total = Len(components),
              !.results.docs.total =
                 IF includeDocs THEN Len(DOCUMENTATION_TOPICS) ELSE 0],
           0, cache, t)

\* The lines after `await warmComponent(...)`: count the result, call
\* onProgress(i + 1, total), and wait for the rate-limit timer.
\* A loop body that reports progress for the successes only.
warmAfterComponentQuiet(w, result, t) ==
  [w EXCEPT !.pc = "delay",
            !.results = warmRecord(@, w.components[w.i + 1], result),
            !.outcomes = Append(@, IF result.success THEN "ok" ELSE result.error),
            !.progress = IF result.success
                           THEN Append(@, <<w.i + 1, Len(w.components)>>)
                           ELSE @,
            !.log = @ \o <<[e |-> "result", i |-> w.i + 1, t |-> t]>>
                      \o (IF result.success
                            THEN <<[e |-> "progress", i |-> w.i + 1, t |-> t]>>
                            ELSE <<>>)
                      \o <<[e |-> "delay", i |-> w.i + 1, t |-> t]>>]
warmAfterComponent(w, result, t) ==
  [w EXCEPT !.pc = "delay",
            !.results = warmRecord(@, w.components[w.i + 1], result),
            !.outcomes = Append(@, IF result.success THEN "ok" ELSE result.error),
            !.progress = Append(@, <<w.i + 1, Len(w.components)>>),
            !.log = @ \o <<[e |-> "result", i |-> w.i + 1, t |-> t],
                           [e |-> "progress", i |-> w.i + 1, t |-> t],
                           [e |-> "delay", i |-> w.i + 1, t |-> t]>>]

warmAfterDocs(w, result) ==
  [w EXCEPT !.pc = "docDelay",
            !.results = warmRecordDocs(@,
                          DOCUMENTATION_TOPICS[w.i - Len(w.components) + 1], result),
            !.outcomes = Append(@, IF result.success THEN "ok" ELSE result.error)]

\* A setComponent/setDocs call `r` made from state s, with the fs call named
\* by io rejecting: the state it leaves and the result warmComponent/warmDocs
\* returns for it.
warmWrite(s, r, io) ==
  IF "threw" \in DOMAIN r.ret
    THEN [s |-> s, result |-> [success |-> FALSE, error |-> r.ret.threw]]
  ELSE IF io = "writeFile"
    THEN [s |-> s, result |-> [success |-> FALSE, error |-> "writeFile"]]
  ELSE IF io = "saveMetadata"
    THEN [s |-> [r.s EXCEPT !.disk[s.currentVersion].metadata =
                               s.disk[s.currentVersion].metadata],
          result |-> [success |-> FALSE, error |-> "saveMetadata"]]
  ELSE [s |-> r.s, result |-> [success |-> TRUE, error |-> ""]]

\* ------------------------------------- spartan_components_get, spartan_docs_get
\* The external article spartan_docs_get serves without the disk cache.
AnalogTopic == "analog-dark-mode"
AnalogUrl == "https://dev.to/this-is-angular/dark-mode-with-analog-tailwind-4049"
Extracts == {"none", "code", "headings", "links", "api"}
\* extractHeadings(html) and extractLinks(html), as functions of the page.
headingsOf(html) == [headingsOf |-> html]
linksOf(html) == [linksOf |-> html]

\* A tool call that is not running.
IdleTool ==
  [pc |-> "idle", tool |-> "", args |-> EmptyObj, url |-> "", branch |-> "",
   content |-> Undefined, cacheInfo |-> Undefined, call |-> IdleCall,
   net |-> 0, ok |-> FALSE, result |-> Undefined, seq |-> 0,
   afterRefresh |-> FALSE]

\* The handler throws.
toolThrow(tl, e) == [tl EXCEPT !.pc = "done", !.ok = FALSE, !.result = Threw(e)]

\* The JSON payload the handlers return after an extraction.
toolPayload(tl, html, version) ==
  LET extract == tl.args.extract
      extracted == CASE extract = "code" -> examplesOf(html)
                     [] extract = "headings" -> headingsOf(html)
                     [] extract = "links" -> linksOf(html)
                     [] extract = "api" /\ tl.tool = "spartan_components_get"
                          -> apiOf(html)
                     [] OTHER -> <<>>
  IN [tl EXCEPT !.pc = "done", !.ok = TRUE,
        !.result =
          IF tl.tool = "spartan_components_get"
            THEN [url |-> tl.url, extract |-> extract, data |-> extracted,
                  cacheInfo |-> tl.cacheInfo, version |-> version]
            ELSE [url |-> tl.url, extract |-> extract, data |-> extracted]]

\* The tail of both handlers, from `if (extract === "none" || format ===
\* "text")` on: return the content, or call fetchContent(url, "html",
\* noCache) for the extraction.
toolTail(tl, cache, version, t) ==
  IF tl.args.extract = "none" \/ tl.args.format = "text"
    THEN [tl EXCEPT !.pc = "done", !.ok = TRUE,
                    !.result = [text |-> tl.content, cacheInfo |-> tl.cacheInfo,
                                source |-> tl.url]]
  ELSE LET call == fetchContentStart(cache, tl.url, "html", tl.args.noCache, t, 0)
       IN IF call.pc = "done"
            THEN toolPayload([tl EXCEPT !.call = call], call.result, version)
            ELSE [tl EXCEPT !.pc = "fetch2", !.call = call, !.net = @ + 1]

\* A handler from the settling of its second fetch on.
toolExtracted(cache, tl, response, version) ==
  LET r == fetchContentResume(cache, tl.call, response)
      tl1 == [tl EXCEPT !.call = r.call]
  IN [cache |-> r.cache,
      tool |-> IF r.call.ok THEN toolPayload(tl1, r.call.result, version)
               ELSE toolThrow(tl1, r.call.result)]

\* The first fetchContent(url, format, noCache) of a handler.
toolFetch(tl, cache, noCache, version, t) ==
  LET call == fetchContentStart(cache, tl.url, tl.args.format, noCache, t, 0)
  IN IF call.pc = "done"
       THEN toolTail([tl EXCEPT !.call = call, !.content = Str(call.result)],
                     cache, version, t)
       ELSE [tl EXCEPT !.pc = "fetch1", !.call = call, !.net = @ + 1]

\* spartan_components_get up to its first await on the network.
spartan_components_get(s, cache, args, t) ==
  LET name == args.name
      tl0 == [IdleTool EXCEPT !.tool = "spartan_components_get", !.args = args,
                              !.url = ComponentUrl(name), !.cacheInfo = Str("")]
  IN IF name = "" THEN [s |-> s, tool |-> toolThrow(tl0, "Missing component name")]
     ELSE
     LET s1 == initialize(s, args.spartanVersion, t).s
         cached == getComponent(s1, name, "full", t)
     IN IF args.noCache
          THEN [s |-> s1,
                tool |-> toolFetch([tl0 EXCEPT !.branch = "bypass"], cache, TRUE,
                                   Str(s1.currentVersion), t)]
        ELSE IF cached.cached /\ ~cached.stale
          THEN [s |-> s1,
                tool |-> toolTail([tl0 EXCEPT !.branch = "hit",
                                     !.content = Get(cached.data, "html"),
                                     !.cacheInfo = [tag |-> "CACHED DATA",
                                                    version |-> cached.version,
                                                    cachedAt |-> cached.cachedAt]],
                                  cache, Str(s1.currentVersion), t)]
        ELSE [s |-> s1,
              tool |-> toolFetch([tl0 EXCEPT !.branch =
                                    IF cached.cached THEN "refresh" ELSE "new"],
                                 cache, TRUE, Str(s1.currentVersion), t)]

\* spartan_docs_get up to its first await on the network.
spartan_docs_get(s, cache, args, t) ==
  LET topic == args.name
      tl0 == [IdleTool EXCEPT !.tool = "spartan_docs_get", !.args = args,
                              !.url = IF topic = AnalogTopic THEN AnalogUrl
                                      ELSE DocsUrl(topic),
                              !.cacheInfo = Str("")]
      s1 == initialize(s, args.spartanVersion, t).s
  IN IF args.noCache \/ topic = AnalogTopic
       THEN [s |-> s1,
             tool |-> toolFetch([tl0 EXCEPT !.branch = "bypass"],
                                cache, args.noCache, Str(s1.currentVersion), t)]
     ELSE
     LET cached == getDocs(s1, topic, t) IN
     IF cached.cached /\ ~cached.stale
       THEN [s |-> s1,
             tool |-> toolTail([tl0 EXCEPT !.branch = "hit",
                                  !.content = cached.data,
                                  !.cacheInfo = [tag |-> "CACHED DATA",
                                                 version |-> cached.version,
                                                 cachedAt |-> cached.cachedAt]],
                               cache, Str(s1.currentVersion), t)]
       ELSE [s |-> s1,
             tool |-> toolFetch([tl0 EXCEPT !.branch =
                                   IF cached.cached THEN "refresh" ELSE "new"],
                                cache, TRUE, Str(s1.currentVersion), t)]

\* A handler from the settling of its first fetch on: throw, or take the
\* content and (on the refresh and new branches) write the entry, the fs
\* call named by io rejecting.
toolFetched(s, cache, tl, response, io, t) ==
  LET r == fetchContentResume(cache, tl.call, response)
      tl1 == [tl EXCEPT !.call = r.call, !.content = Str(r.call.result)]
  IN IF ~r.call.ok
       THEN [s |-> s, cache |-> r.cache, tool |-> toolThrow(tl1, r.call.result)]
     ELSE IF tl.branch = "bypass"
       THEN [s |-> s, cache |-> r.cache,
             tool |-> toolTail(IF tl.args.noCache
                                 THEN [tl1 EXCEPT !.cacheInfo = [tag |-> "LIVE FETCH"]]
                                 ELSE tl1,
                               r.cache, Str(s.currentVersion), t)]
     ELSE
     LET w == warmWrite(s,
                IF tl.tool = "spartan_components_get"
                  THEN setComponent(s, tl.args.name,
                         ComponentPayload(r.call.result, tl.url), t)
                  ELSE setDocs(s, tl.args.name, r.call.result, t),
                io)
     IN IF ~w.result.success
          THEN [s |-> w.s, cache |-> r.cache,
                tool |-> toolThrow(tl1, w.result.error)]
          ELSE [s |-> w.s, cache |-> r.cache,
                tool |-> toolTail([tl1 EXCEPT !.cacheInfo =
                                     [tag |-> IF tl.branch = "refresh"
                                                THEN "CACHE REFRESHED"
                                                ELSE "NEWLY CACHED",
                                      version |-> Str(w.s.currentVersion)]],
                                  r.cache, Str(w.s.currentVersion), t)]

\* ------------------------------------------- handlers running concurrently
\* spartan_components_get({name, spartanVersion}) as the event loop runs it:
\* one step from each await on the file system or the network to the next.
\* Every step reads this.currentVersion and this.cacheMetadata of the one
\* cacheManager as they are when the step runs.
Requests == {1, 2}
\* path: the version a pending file operation built its path from; data:
\* what a pending write writes; entryAt, metaAt: the partitions setComponent
\* wrote its entry and its metadata record to.
IdleReq ==
  [pc |-> "idle", name |-> "", path |-> NoArg, data |-> Undefined,
   entryAt |-> NoArg, metaAt |-> NoArg]

\* initialize(spartanVersion) up to `await fs.mkdir(...)` in ensureCacheDir.
reqInitialize(s, q, name, spartanVersion) ==
  LET v == IF spartanVersion \in {NoArg, ""} THEN "latest" ELSE spartanVersion
  IN [s |-> ensureCacheDir([s EXCEPT !.currentVersion = v]),
      q |-> [q EXCEPT !.pc = "mkdir", !.name = name]]

\* getComponent(name, "full") up to `await fs.readFile(componentFile)`.
reqGetComponent(s, q) ==
  [s |-> s, q |-> [q EXCEPT !.pc = "readEntry", !.path = s.currentVersion]]

\* A handler from the await that settles to the next one.
reqResume(s, q, t) ==
  CASE q.pc = "mkdir" ->
         \* loadMetadata up to `await fs.readFile(metadataPath)`
         [s |-> s, q |-> [q EXCEPT !.pc = "readMetadata", !.path = s.currentVersion]]
    [] q.pc = "readMetadata" ->
         LET file == s.disk[q.path].metadata IN
         IF Readable(file)
           THEN reqGetComponent([s EXCEPT !.cacheMetadata = file.json], q)
           ELSE \* the catch, up to `await fs.writeFile` in saveMetadata
             LET s1 == [s EXCEPT !.cacheMetadata =
                          [version |-> Str(s.currentVersion),
                           createdAt |-> toISOString(t),
                           lastUpdated |-> toISOString(t),
                           components |-> EmptyObj,
                           docs |-> EmptyObj]]
             IN [s |-> s1,
                 q |-> [q EXCEPT !.pc = "saveMetadata",
                                 !.path = s1.currentVersion,
                                 !.data = JSONstringify(s1.cacheMetadata)]]
    [] q.pc = "saveMetadata" ->
         reqGetComponent([s EXCEPT !.disk[q.path].metadata = q.data], q)
    [] q.pc = "readEntry" ->
         LET file == s.disk[q.path].components[q.name] IN
         IF Readable(file) /\ ~isStale(t - getTime(file.json.cachedAt))
           THEN [s |-> s, q |-> [q EXCEPT !.pc = "done"]]
           ELSE [s |-> s, q |-> [q EXCEPT !.pc = "fetch"]]
    [] q.pc = "fetch" ->
         \* setComponent up to `await fs.writeFile(componentFile, ...)`
         LET cacheEntry == [componentName |-> Str(q.name),
                            version |-> Str(s.currentVersion),
                            cachedAt |-> toISOString(t)]
                             @@ ComponentPayload(PageX, ComponentUrl(q.name))
         IN [s |-> s,
             q |-> [q EXCEPT !.pc = "writeEntry", !.path = s.currentVersion,
                             !.data = JSONstringify(cacheEntry),
                             !.entryAt = s.currentVersion]]
    [] q.pc = "writeEntry" ->
         \* the metadata update, up to `await fs.writeFile` in saveMetadata
         LET s1 == [s EXCEPT !.disk[q.path].components[q.name] = q.data]
             s2 == [s1 EXCEPT !.cacheMetadata.components =
                                 (q.name :>
                                    [cachedAt |-> q.data.json.cachedAt,
                                     size |-> Cardinality(DOMAIN q.data.json)]) @@ @,
                              !.cacheMetadata.lastUpdated = toISOString(t)]
         IN [s |-> s2,
             q |-> [q EXCEPT !.pc = "writeMetadata", !.path = s2.currentVersion,
                             !.data = JSONstringify(s2.cacheMetadata),
                             !.metaAt = s2.currentVersion]]
    [] q.pc = "writeMetadata" ->
         [s |-> [s EXCEPT !.disk[q.path].metadata = q.data],
          q |-> [q EXCEPT !.pc = "done"]]

\* ------------------------------------------------------ cache-management tools
\* spartan_cache_status: initialize() then getStats().
spartan_cache_status(s, t) ==
  LET s1 == initialize(s, NoArg, t).s
      stats == getStats(s1)
  IN [s |-> s1,
      ret |-> [currentVersion |-> stats.currentVersion,
               totalVersions |-> stats.totalVersions,
               versions |-> stats.versions]]

\* spartan_cache_clear: initialize() then clearAll() or clearVersion().
spartan_cache_clear(s, allVersions, t) ==
  LET s1 == initialize(s, NoArg, t).s
  IN IF allVersions THEN clearAll(s1, t) ELSE clearVersion(s1, t)

\* spartan_cache_switch_version: switchVersion(version).
spartan_cache_switch_version(s, version, t) == switchVersion(s, version, t)

\* spartan_cache_list_versions: initialize() then listVersions().
spartan_cache_list_versions(s, t) ==
  LET s1 == initialize(s, NoArg, t).s
  IN [s |-> s1, ret |-> listVersions(s1)]

\* ------------------------------------------------------------------ actions
Commit(r, o) ==
  /\ currentVersion' = r.s.currentVersion
  /\ cacheMetadata' = r.s.cacheMetadata
  /\ cacheDirExists' = r.s.cacheDirExists
  /\ disk' = r.s.disk
  /\ ret' = r.ret
  /\ prev' = op.name
  /\ op' = o
  /\ UNCHANGED <<now, ticks, fetchVars, warm, tool, ex, reqs>>

Read(r, o) == Commit([s |-> Mgr, ret |-> r], o)

Boot ==
  /\ now = 0
  /\ ticks = 0
  /\ currentVersion = NullVersion
  /\ cacheMetadata = Null
  /\ cacheDirExists = FALSE
  /\ disk = [v \in Versions |-> NoDir]
  /\ op = NoOp
  /\ prev = "none"
  /\ ret = Undefined
  /\ responseCache = EmptyObj
  /\ calls = [c \in Callers |-> IdleCall]
  /\ nextSeq = 1
  /\ netCalls = 0
  /\ warm = IdleWarm
  /\ tool = IdleTool
  /\ reqs = [r \in Requests |-> IdleReq]

Init == Boot /\ ex = IdleEx

\* Time passes: by d milliseconds, for a d of D.
TickIn(D) ==
  /\ ticks < MaxTicks
  /\ \E d \in D : now' = now + d
  /\ ticks' = ticks + 1
  /\ UNCHANGED <<mgrVars, fetchVars, warm, tool, ex, reqs>>

\* A second, or the disk TTL, or a second less.
Tick == TickIn({1000, TtlMs - 1000, TtlMs})

\* The process restarts: a new CacheManager over the disk as it is.
Restart ==
  /\ currentVersion # NullVersion
  /\ Commit([s |-> [Mgr EXCEPT !.currentVersion = NullVersion,
                               !.cacheMetadata = Null],
             ret |-> Undefined],
            Call("constructor", NoArg, NoArg, Undefined, now))

InitializeIn(VA) ==
  \E v \in VA :
    Commit(initialize(Mgr, v, now), Call("initialize", v, NoArg, Undefined, now))

SwitchVersionIn(VS) ==
  \E v \in VS :
    Commit(switchVersion(Mgr, v, now),
           Call("switchVersion", v, NoArg, Undefined, now))

SetComponentIn(KS) ==
  \E k \in KS, p \in Payloads :
    Commit(setComponent(Mgr, k, p, now), Call("setComponent", k, NoArg, p, now))

GetComponentIn(KS) ==
  \E k \in KS, f \in DataTypes \cup {NoArg} :
    Read(getComponent(Mgr, k, f, now), Call("getComponent", k, f, Undefined, now))

\* setComponent(k, p) for a payload of PS, getComponent(k, f) for a field of FS.
SetPayloadIn(KS, PS) ==
  \E k \in KS, p \in PS :
    Commit(setComponent(Mgr, k, p, now), Call("setComponent", k, NoArg, p, now))

GetFieldIn(KS, FS) ==
  \E k \in KS, f \in FS :
    Read(getComponent(Mgr, k, f, now), Call("getComponent", k, f, Undefined, now))

SetDocs ==
  \E k \in Topics, c \in Contents :
    Commit(setDocs(Mgr, k, c, now), Call("setDocs", k, NoArg, Str(c), now))

GetDocs ==
  \E k \in Topics :
    Read(getDocs(Mgr, k, now), Call("getDocs", k, NoArg, Undefined, now))

ClearVersion ==
  Commit(clearVersion(Mgr, now),
         Call("clearVersion", NoArg, NoArg, Undefined, now))

ClearAll ==
  Commit(clearAll(Mgr, now), Call("clearAll", NoArg, NoArg, Undefined, now))

GetStats ==
  Read(getStats(Mgr), Call("getStats", NoArg, NoArg, Undefined, now))

ListVersions ==
  Read(listVersions(Mgr), Call("listVersions", NoArg, NoArg, Undefined, now))

\* Something outside the program damages or removes an entry file.
DamageEntry ==
  \E v \in Versions, file \in {Corrupt, NoFile} :
    /\ disk[v] # NoDir
    /\ \/ \E k \in Keys :
            /\ disk[v].components[k] \notin {NoFile, file}
            /\ Commit([s |-> [Mgr EXCEPT !.disk[v].components[k] = file],
                       ret |-> Undefined],
                      Call("fault", v, k, file, now))
       \/ \E k \in Topics :
            /\ disk[v].docs[k] \notin {NoFile, file}
            /\ Commit([s |-> [Mgr EXCEPT !.disk[v].docs[k] = file],
                       ret |-> Undefined],
                      Call("fault", v, k, file, now))

\* Something outside the program damages or removes a metadata.json.
DamageMetadata ==
  \E v \in Versions, file \in {Corrupt, NoFile} :
    /\ disk[v] # NoDir
    /\ disk[v].metadata \notin {NoFile, file}
    /\ Commit([s |-> [Mgr EXCEPT !.disk[v].metadata = file], ret |-> Undefined],
              Call("fault", v, "metadata.json", file, now))

Initialize == InitializeIn(VersionArgs)
SwitchVersion == SwitchVersionIn(Versions)
SetComponent == SetComponentIn(Keys)
GetComponent == GetComponentIn(Keys)

ToolStatus ==
  Commit(spartan_cache_status(Mgr, now),
         Call("spartan_cache_status", NoArg, NoArg, Undefined, now))

ToolClear ==
  \E allVersions \in BOOLEAN :
    Commit(spartan_cache_clear(Mgr, allVersions, now),
           Call("spartan_cache_clear", IF allVersions THEN "all" ELSE NoArg,
                NoArg, Undefined, now))

ToolSwitchVersion ==
  \E v \in Versions :
    Commit(spartan_cache_switch_version(Mgr, v, now),
           Call("spartan_cache_switch_version", v, NoArg, Undefined, now))

ToolListVersions ==
  Commit(spartan_cache_list_versions(Mgr, now),
         Call("spartan_cache_list_versions", NoArg, NoArg, Undefined, now))

\* A caller calls fetchContent(url, format, noCache) and runs to its await.
FetchStart(c) ==
  /\ calls[c].pc # "awaiting"
  /\ nextSeq <= MaxCalls
  /\ \E url \in Urls, format \in Formats, noCache \in BOOLEAN :
       LET call == fetchContentStart(responseCache, url, format, noCache,
                                     now, nextSeq)
       IN /\ calls' = [calls EXCEPT ![c] = call]
          /\ netCalls' = IF call.net THEN netCalls + 1 ELSE netCalls
  /\ nextSeq' = nextSeq + 1
  /\ UNCHANGED <<now, ticks, mgrVars, responseCache, warm, tool, ex, reqs>>

\* The response of fetch(url) arrives and the call runs to its end.
FetchResume(c) ==
  /\ calls[c].pc = "awaiting"
  /\ \E response \in Responses :
       LET r == fetchContentResume(responseCache, calls[c], response)
       IN /\ responseCache' = r.cache
          /\ calls' = [calls EXCEPT ![c] = r.call]
  /\ UNCHANGED <<now, ticks, mgrVars, nextSeq, netCalls, warm, tool, ex, reqs>>

\* fetchContent called while no other call is in flight.
FetchStartAlone(c) ==
  /\ \A d \in Callers : calls[d].pc # "awaiting"
  /\ FetchStart(c)

\* A millisecond, or a millisecond less than the fetch TTL.
FetchTick == TickIn({1, ttlMs - 1})

\* The tool state a handler leaves, with the manager, the disk and the Map.
ToolCommit(s, cache, tl) ==
  /\ currentVersion' = s.currentVersion
  /\ cacheMetadata' = s.cacheMetadata
  /\ cacheDirExists' = s.cacheDirExists
  /\ disk' = s.disk
  /\ responseCache' = cache
  /\ tool' = tl
  /\ netCalls' = netCalls + (tl.net - (IF tl.seq = tool.seq THEN tool.net ELSE 0))
  /\ UNCHANGED <<now, ticks, op, prev, ret, calls, nextSeq, warm, ex, reqs>>

\* Whether the call tl repeats the call before it and that call overwrote
\* its stale entry.
AfterRefresh(tl) ==
  /\ tool.branch = "refresh"
  /\ tool.cacheInfo = [tag |-> "CACHE REFRESHED", version |-> Str(currentVersion)]
  /\ tool.tool = tl.tool
  /\ tool.args = tl.args

\* A client calls spartan_components_get or spartan_docs_get while no other
\* call of the two is running.
ToolGetIn(N, Names, Topics0, Fmts, Exts, NCs, VA) ==
  /\ tool.pc \in {"idle", "done"}
  /\ tool.seq < N
  /\ \E format \in Fmts, extract \in Exts, noCache \in NCs, v \in VA :
       \/ \E name \in Names :
            \E r \in {spartan_components_get(Mgr, responseCache,
                       [name |-> name, format |-> format, extract |-> extract,
                        noCache |-> noCache, spartanVersion |-> v], now)} :
              \E tl \in {[r.tool EXCEPT !.seq = tool.seq + 1,
                                        !.afterRefresh = AfterRefresh(r.tool)]} :
                ToolCommit(r.s, responseCache, tl)
       \/ \E topic \in Topics0 :
            /\ extract # "api"
            /\ \E r \in {spartan_docs_get(Mgr, responseCache,
                          [name |-> topic, format |-> format, extract |-> extract,
                           noCache |-> noCache, spartanVersion |-> v], now)} :
                 \E tl \in {[r.tool EXCEPT !.seq = tool.seq + 1,
                                           !.afterRefresh = AfterRefresh(r.tool)]} :
                   ToolCommit(r.s, responseCache, tl)

\* The first fetch of the running handler settles.
ToolFetchedIn(Rs, IOs) ==
  /\ tool.pc = "fetch1"
  /\ \E response \in Rs, io \in IOs :
       \E r \in {toolFetched(Mgr, responseCache, tool, response, io, now)} :
         ToolCommit(r.s, r.cache, r.tool)

\* The second fetch of the running handler settles.
ToolExtractedIn(Rs) ==
  /\ tool.pc = "fetch2"
  /\ \E response \in Rs :
       \E r \in {toolExtracted(responseCache, tool, response, Str(currentVersion))} :
         ToolCommit(Mgr, r.cache, r.tool)

\* What a step of request r leaves.
ReqCommit(r, x) ==
  /\ currentVersion' = x.s.currentVersion
  /\ cacheMetadata' = x.s.cacheMetadata
  /\ cacheDirExists' = x.s.cacheDirExists
  /\ disk' = x.s.disk
  /\ reqs' = [reqs EXCEPT ![r] = x.q]
  /\ UNCHANGED <<now, ticks, op, prev, ret, fetchVars, warm, tool, ex>>

\* A client sends request r: spartan_components_get for "button" under a
\* version of its choice.
ReqStart(r) ==
  /\ reqs[r].pc = "idle"
  /\ \E v \in Versions :
       \E x \in {reqInitialize(Mgr, reqs[r], "button", v)} : ReqCommit(r, x)

\* The file or network operation request r awaits settles.
ReqResume(r) ==
  /\ reqs[r].pc \notin {"idle", "done"}
  /\ \E x \in {reqResume(Mgr, reqs[r], now)} : ReqCommit(r, x)

\* Five minutes (the fetch TTL), or just over the disk TTL.
ToolTick == TickIn({ttlMs, TtlMs + 1})

\* extractCodeBlocks(html) runs.
ExtractCodeBlocks ==
  /\ ex.pc = "called" /\ ex.fn = "extractCodeBlocks"
  /\ ex' = [ex EXCEPT !.pc = "returned", !.out = extractCodeBlocks(ex.html)]
  /\ UNCHANGED <<now, ticks, mgrVars, fetchVars, warm, tool, reqs>>

\* extractAPIInfo(html) runs.
ExtractAPIInfo ==
  /\ ex.pc = "called" /\ ex.fn = "extractAPIInfo"
  /\ ex' = [ex EXCEPT !.pc = "returned", !.out = extractAPIInfo(ex.html)]
  /\ UNCHANGED <<now, ticks, mgrVars, fetchVars, warm, tool, reqs>>

\* warmCache({components, includeDocs, onProgress}) is called.
WarmStart ==
  /\ warm.pc = "idle"
  /\ \E components \in Lists, includeDocs \in BOOLEAN :
       warm' = warmCache(components, includeDocs, currentVersion,
                         responseCache, now)
  /\ netCalls' = IF warm'.pc = "done" THEN netCalls ELSE netCalls + 1
  /\ UNCHANGED <<now, ticks, mgrVars, responseCache, calls, nextSeq, tool, ex, reqs>>

\* warmComponent: the fetch settles; on a page, the extraction runs (and may
\* throw) and setComponent starts its write.
WarmFetch ==
  /\ warm.pc = "fetch"
  /\ \E response \in Responses, extractThrows \in BOOLEAN :
       LET r == fetchContentResume(responseCache, warm.call, response) IN
       /\ responseCache' = r.cache
       /\ warm' =
            IF ~r.call.ok
              THEN warmAfterComponent([warm EXCEPT !.call = r.call],
                     [success |-> FALSE, error |-> r.call.result], now)
            ELSE IF extractThrows
              THEN warmAfterComponent([warm EXCEPT !.call = r.call],
                     [success |-> FALSE, error |-> "extract"], now)
            ELSE [warm EXCEPT !.pc = "write", !.call = r.call]
  /\ UNCHANGED <<now, ticks, mgrVars, calls, nextSeq, netCalls, tool, ex, reqs>>

\* warmComponent: setComponent settles.
WarmWrite ==
  /\ warm.pc = "write"
  /\ \E io \in WriteOutcomes :
       LET component == warm.components[warm.i + 1]
           r == setComponent(Mgr, component,
                             ComponentPayload(warm.call.result, warm.call.url), now)
           w == warmWrite(Mgr, r, io)
       IN /\ cacheMetadata' = w.s.cacheMetadata
          /\ disk' = w.s.disk
          /\ warm' = warmAfterComponent(warm, w.result, now)
  /\ UNCHANGED <<now, ticks, currentVersion, cacheDirExists, op, prev, ret,
                 fetchVars, tool, ex, reqs>>

\* The rate-limit timer fires and the loop goes on, or warmCache returns.
WarmDelay ==
  /\ warm.pc \in {"delay", "docDelay"}
  /\ now' = now + RateLimitMs
  /\ warm' = warmLoop(warm, warm.i + 1, responseCache, now')
  /\ netCalls' = IF warm'.pc = "done" THEN netCalls ELSE netCalls + 1
  /\ UNCHANGED <<ticks, mgrVars, responseCache, calls, nextSeq, tool, ex, reqs>>

\* warmDocs: the fetch settles and setDocs starts its write.
WarmDocFetch ==
  /\ warm.pc = "docFetch"
  /\ \E response \in Responses :
       LET r == fetchContentResume(responseCache, warm.call, response) IN
       /\ responseCache' = r.cache
       /\ warm' =
            IF ~r.call.ok
              THEN warmAfterDocs([warm EXCEPT !.call = r.call],
                     [success |-> FALSE, error |-> r.call.result])
              ELSE [warm EXCEPT !.pc = "docWrite", !.call = r.call]
  /\ UNCHANGED <<now, ticks, mgrVars, calls, nextSeq, netCalls, tool, ex, reqs>>

\* warmDocs: setDocs settles.
WarmDocWrite ==
  /\ warm.pc = "docWrite"
  /\ \E io \in WriteOutcomes :
       LET topic == DOCUMENTATION_TOPICS[warm.i - Len(warm.components) + 1]
           r == setDocs(Mgr, topic, warm.call.result, now)
           w == warmWrite(Mgr, r, io)
       IN /\ cacheMetadata' = w.s.cacheMetadata
          /\ disk' = w.s.disk
          /\ warm' = warmAfterDocs(warm, w.result)
  /\ UNCHANGED <<now, ticks, currentVersion, cacheDirExists, op, prev, ret,
                 fetchVars, tool, ex, reqs>>

\* The CacheManager's operations, called one at a time.
Next ==
  \/ Restart
  \/ Initialize
  \/ SwitchVersion
  \/ SetComponent
  \/ GetComponent
  \/ SetDocs
  \/ GetDocs
  \/ ClearVersion
  \/ ClearAll
  \/ GetStats
  \/ ListVersions

Spec == Init /\ [][Next]_vars

\* One partition and one component over a clock that advances.
NextClock ==
  \/ Tick
  \/ InitializeIn({NoArg})
  \/ SetComponentIn({"button"})
  \/ GetComponentIn({"button"})
  \/ SetDocs
  \/ GetDocs

SpecClock == Init /\ [][NextClock]_vars

\* The cache-management tools, called one at a time, over partitions that
\* the component and docs handlers fill (initialize(version), then set).
NextTools ==
  \/ ToolStatus
  \/ ToolClear
  \/ ToolSwitchVersion
  \/ ToolListVersions
  \/ Initialize
  \/ SetComponent
  \/ SetDocs

SpecTools == Init /\ [][NextTools]_vars

\* The manager over a disk whose files may be damaged or removed behind
\* its back.
NextFault ==
  \/ InitializeIn({"v1"})
  \/ SwitchVersionIn({"v1"})
  \/ SetComponentIn({"button"})
  \/ GetComponentIn({"button"})
  \/ SetDocs
  \/ GetDocs
  \/ DamageEntry
  \/ DamageMetadata

SpecFault == Init /\ [][NextFault]_vars

\* Payloads with empty fields written and read back field by field.
NextField ==
  \/ InitializeIn({"v1"})
  \/ SetPayloadIn(Keys, FieldPayloads)
  \/ GetFieldIn(Keys, Fields \cup {NoArg})

SpecField == Init /\ [][NextField]_vars

\* Two requests for the same component, each under a version of its own
\* choice, running concurrently.
NextConcurrent ==
  \/ \E r \in Requests : ReqStart(r)
  \/ \E r \in Requests : ReqResume(r)

SpecConcurrent == Init /\ [][NextConcurrent]_vars

\* fetchContent called by one caller after the other, over time.
NextFetch ==
  \/ FetchTick
  \/ \E c \in Callers : FetchStartAlone(c)
  \/ \E c \in Callers : FetchResume(c)

SpecFetch == Init /\ [][NextFetch]_vars

\* fetchContent called by two callers whose calls may overlap.
NextOverlap ==
  \/ \E c \in Callers : FetchStart(c)
  \/ \E c \in Callers : FetchResume(c)

SpecOverlap == Init /\ [][NextOverlap]_vars

\* The page the network serves to the tools, or a 404.
ToolResponses == {[kind |-> "ok", html |-> PageX], [kind |-> "status", html |-> ""]}

\* The two documentation tools, called one after the other over time
\* ("headings" and "links" take the path of "code" through the handlers).
NextGet ==
  \/ ToolGetIn(MaxTools, {"button"}, {"installation"}, Formats,
               {"none", "code", "api"}, BOOLEAN, {"v1"})
  \/ ToolFetchedIn(ToolResponses, {"ok"})
  \/ ToolExtractedIn(ToolResponses)
  \/ ToolTick

SpecGet == Init /\ [][NextGet]_vars

\* The two tools called with the cache on, often enough for an entry to be
\* cached, go stale, be refreshed and be asked for again.
NextRefresh ==
  \/ ToolGetIn(MaxRefresh, {"button"}, {"installation"}, Formats,
               {"none", "code"}, {FALSE}, {NoArg})
  \/ ToolFetchedIn(ToolResponses, {"ok"})
  \/ ToolExtractedIn(ToolResponses)
  \/ ToolTick

SpecRefresh == Init /\ [][NextRefresh]_vars

\* extractCodeBlocks called on a page that holds one code block.
InitCode ==
  /\ Boot
  /\ \E kind \in {"pre", "code"}, content \in CodeContents :
       ex = [pc |-> "called", fn |-> "extractCodeBlocks",
             input |-> [kind |-> kind, content |-> content],
             html |-> CodePage(kind, content), out |-> Undefined]

NextCode == ExtractCodeBlocks

SpecCode == InitCode /\ [][NextCode]_vars

\* extractAPIInfo called on a page without any API heading.
InitApi ==
  /\ Boot
  /\ \E page \in PlainPages :
       ex = [pc |-> "called", fn |-> "extractAPIInfo", input |-> Undefined,
             html |-> page, out |-> Undefined]

NextApi == ExtractAPIInfo

SpecApi == InitApi /\ [][NextApi]_vars

\* extractAPIInfo called on a page with API sections in any order.
InitSection ==
  /\ Boot
  /\ \E page \in SectionPages :
       ex = [pc |-> "called", fn |-> "extractAPIInfo", input |-> Undefined,
             html |-> page, out |-> Undefined]

NextSection == ExtractAPIInfo

SpecSection == InitSection /\ [][NextSection]_vars

\* extractAPIInfo called on a page with a Brain API section that holds one
\* component and its Inputs table.
InitTable ==
  /\ Boot
  /\ \E rows \in TableRows, suffix \in TableSuffixes :
       ex = [pc |-> "called", fn |-> "extractAPIInfo",
             input |-> [rows |-> rows, suffix |-> suffix],
             html |-> TablePage(rows, suffix), out |-> Undefined]

NextTable == ExtractAPIInfo

SpecTable == InitTable /\ [][NextTable]_vars

\* One warmCache call, made after the caller's initialize(version) (or
\* without it), with nothing else running.
NextWarm ==
  \/ (warm.pc = "idle" /\ InitializeIn({"v1"}))
  \/ WarmStart
  \/ WarmFetch
  \/ WarmWrite
  \/ WarmDelay
  \/ WarmDocFetch
  \/ WarmDocWrite

SpecWarm == Init /\ [][NextWarm]_vars

\* The same, every pending fetch and disk write settling and every
\* rate-limit timer firing in the end.
\* (warm.pc enables at most one of the five steps at a time.)
WarmSettles ==
  WarmFetch \/ WarmWrite \/ WarmDelay \/ WarmDocFetch \/ WarmDocWrite
SpecWarmFair == Init /\ [][NextWarm]_vars /\ WF_vars(WarmSettles)

\* One warmCache call, with a cache-management request switching the
\* version while the run is suspended at one of its awaits.
NextWarmSwitch ==
  \/ (warm.pc = "idle" /\ InitializeIn({"v1"}))
  \/ (warm.pc \notin {"idle", "done"} /\ SwitchVersionIn({"latest"}))
  \/ WarmStart
  \/ WarmFetch
  \/ WarmWrite
  \/ WarmDelay
  \/ WarmDocFetch
  \/ WarmDocWrite

SpecWarmSwitch == Init /\ [][NextWarmSwitch]_vars

\* =================================================================== claims
Returned == "threw" \notin DOMAIN ret
Active == currentVersion # NullVersion
ComponentFile(v, k) == IF disk[v] = NoDir THEN NoFile ELSE disk[v].components[k]
DocsFile(v, k) == IF disk[v] = NoDir THEN NoFile ELSE disk[v].docs[k]
MetadataFile(v) == IF disk[v] = NoDir THEN NoFile ELSE disk[v].metadata
StoredKeys(v) == {k \in Keys : Readable(ComponentFile(v, k))}
StoredTopics(v) == {k \in Topics : Readable(DocsFile(v, k))}
\* Directory tree present, metadata present and empty, no entry file.
EmptyInitialized(part) ==
  /\ part # NoDir
  /\ Readable(part.metadata)
  /\ DOMAIN part.metadata.json.components = {}
  /\ DOMAIN part.metadata.json.docs = {}
  /\ \A k \in Keys : part.components[k] = NoFile
  /\ \A k \in Topics : part.docs[k] = NoFile

\* C1 (state part): every entry file and metadata file of a partition was
\* written while that partition was the active version, and a cached read
\* is served from the active version's partition.
C1_OwnPartition ==
  /\ \A v \in Versions :
       /\ \A k \in Keys : Readable(ComponentFile(v, k))
             => ComponentFile(v, k).json.version = Str(v)
       /\ \A k \in Topics : Readable(DocsFile(v, k))
             => DocsFile(v, k).json.version = Str(v)
       /\ Readable(MetadataFile(v)) => MetadataFile(v).json.version = Str(v)
  /\ (op.name = "getComponent" /\ Returned /\ ret.cached)
       => /\ ret.version = Str(currentVersion)
          /\ Readable(ComponentFile(currentVersion, op.a))
          /\ ret.cachedAt = ComponentFile(currentVersion, op.a).json.cachedAt
  /\ (op.name = "getDocs" /\ Returned /\ ret.cached)
       => /\ ret.version = Str(currentVersion)
          /\ Readable(DocsFile(currentVersion, op.a))
          /\ ret.data = DocsFile(currentVersion, op.a).json.content

\* C1 (step part): no call other than clearAll creates, changes or deletes
\* anything in a partition other than the one active when it returns.
C1_Frame ==
  op'.name # "clearAll"
    => \A v \in Versions : v # currentVersion' => disk'[v] = disk[v]

\* C1: partition isolation: in any sequence of initialize, switchVersion,
\* setComponent, setDocs, getComponent, getDocs and clearVersion calls, an
\* entry written while version A is active is readable only while A is
\* active, and no call made while A is active touches another partition.
C1_PartitionIsolation == [](C1_OwnPartition) /\ [][C1_Frame]_vars

\* C1 witness: both partitions hold "button", with different payloads, and
\* a read under v1 was served while latest's entry stayed as written.
C1_Witness ==
  /\ currentVersion = "v1"
  /\ op.name = "getComponent" /\ op.a = "button" /\ Returned /\ ret.cached
  /\ Readable(ComponentFile("latest", "button"))
  /\ Readable(ComponentFile("v1", "button"))
  /\ "full" \in DOMAIN ComponentFile("latest", "button").json
  /\ "full" \notin DOMAIN ComponentFile("v1", "button").json

\* C2: metadata lockstep: after every completed operation, every key listed
\* in a partition's metadata components map has a component entry file in
\* that partition, and every key of its docs map has a docs entry file.
C2_MetadataLockstep ==
  \A v \in Versions :
    Readable(MetadataFile(v))
      => /\ DOMAIN MetadataFile(v).json.components \subseteq StoredKeys(v)
         /\ DOMAIN MetadataFile(v).json.docs \subseteq StoredTopics(v)

\* C2 witness: a partition whose metadata lists two components and a topic,
\* next to a partition that was cleared.
C2_Witness ==
  /\ Readable(MetadataFile("v1"))
  /\ DOMAIN MetadataFile("v1").json.components = Keys
  /\ DOMAIN MetadataFile("v1").json.docs = Topics
  /\ op.name = "clearVersion" /\ currentVersion = "latest"

\* getComponent(key), with no field, directly after a setComponent(key, p)
\* that returned.
C3_SetThenGet ==
  /\ op.name = "setComponent" /\ Returned
  /\ op'.name = "getComponent" /\ op'.a = op.a /\ op'.b = NoArg
  /\ op'.at = op.at

C4_Age(file) == op.at - getTime(file.json.cachedAt)

\* C4: staleness is advisory with a strict boundary: for every present
\* entry getComponent/getDocs return cached=true with the stored data
\* whatever its age, and stale is true exactly when
\* now - cachedAt > ttlHours*3600000.
C4_Staleness ==
  /\ (op.name = "getComponent" /\ Active
        /\ Readable(ComponentFile(currentVersion, op.a)))
       => LET file == ComponentFile(currentVersion, op.a) IN
          /\ ret.cached
          /\ \/ ret.data = file.json
             \/ \E f \in DOMAIN file.json : ret.data = file.json[f]
          /\ ret.stale = (C4_Age(file) > 24 * 3600000)
          /\ C4_Age(file) = 24 * 3600000 + 1000 => ret.stale
          /\ C4_Age(file) \in {24 * 3600000 - 1000, 24 * 3600000} => ~ret.stale
  /\ (op.name = "getDocs" /\ Active
        /\ Readable(DocsFile(currentVersion, op.a)))
       => LET file == DocsFile(currentVersion, op.a) IN
          /\ ret.cached
          /\ ret.data = file.json.content
          /\ ret.stale = (C4_Age(file) > 24 * 3600000)

\* C4 witness: a read of an entry aged ttl + 1 second, returned with its
\* data and flagged stale.
C4_Witness ==
  /\ op.name = "getComponent" /\ Active
  /\ Readable(ComponentFile(currentVersion, op.a))
  /\ C4_Age(ComponentFile(currentVersion, op.a)) = TtlMs + 1000
  /\ ret.cached /\ ret.stale /\ ret.data = FullOf(PageX, "u")

\* C5: clearVersion is idempotent: called twice in a row on the active
\* version it returns success both times and leaves the partition in the
\* same empty-but-initialized state after each call.
C5_ClearVersionIdempotent ==
  /\ []((op.name = "clearVersion" /\ Active)
          => /\ ret.success
             /\ EmptyInitialized(disk[currentVersion]))
  /\ [][(op.name = "clearVersion" /\ op'.name = "clearVersion" /\ Active)
          => /\ ret'.success
             /\ disk' = disk]_vars

\* C5 witness: the second of two clearVersion calls in a row has returned.
C5_Witness ==
  /\ op.name = "clearVersion" /\ prev = "clearVersion" /\ Active
  /\ ret.success
  /\ \E v \in Versions : v # currentVersion /\ StoredKeys(v) # {}

\* C6: clearAll deletes every version directory present, returns the names
\* of exactly those directories and recreates only the active version:
\* afterwards listVersions returns exactly the active version, whose
\* partition has empty metadata and no entry files.
C6_ClearAll ==
  [][(op'.name = "clearAll" /\ Active)
       => /\ ret'.success
          /\ ret'.versions = readdir(disk)
          /\ listVersions(Mgr') =
               <<[version |-> currentVersion, isCurrent |-> TRUE]>>
          /\ currentVersion' = currentVersion
          /\ EmptyInitialized(disk'[currentVersion])
          /\ \A v \in Versions : v # currentVersion => disk'[v] = NoDir]_vars

\* C6 witness: clearAll has returned the names of two directories.
C6_Witness ==
  /\ op.name = "clearAll" /\ Active /\ ret.success
  /\ Len(ret.versions) = 2

\* C7: getStats bookkeeping: getStats reports, for each partition, a
\* componentCount equal to the number of distinct component keys stored in
\* it, and isCurrent true for the active version and for no other.
C7_GetStats ==
  (op.name = "getStats" /\ cacheDirExists)
    => /\ {ret.versions[i].version : i \in 1..Len(ret.versions)}
            = {v \in Versions : disk[v] # NoDir}
       /\ Len(ret.versions) = Cardinality({v \in Versions : disk[v] # NoDir})
       /\ \A i \in 1..Len(ret.versions) :
            LET stat == ret.versions[i] IN
            /\ stat.componentCount = Cardinality(StoredKeys(stat.version))
            /\ stat.isCurrent = (stat.version = currentVersion)

\* C7 witness: getStats after initialize("v1") and setComponent("button"),
\* reporting {version: "v1", componentCount: 1, isCurrent: true} next to a
\* partition with two components.
C7_Witness ==
  /\ op.name = "getStats" /\ currentVersion = "v1"
  /\ \E i \in 1..Len(ret.versions) :
       /\ ret.versions[i].version = "v1"
       /\ ret.versions[i].componentCount = 1
       /\ ret.versions[i].isCurrent
  /\ \E i \in 1..Len(ret.versions) :
       /\ ret.versions[i].version = "latest"
       /\ ret.versions[i].componentCount = 2
       /\ ~ret.versions[i].isCurrent

\* C10: the version switch persists for cache management: after
\* spartan_cache_switch_version(v), a following spartan_cache_clear({})
\* clears partition v and leaves the other partitions untouched, and
\* spartan_cache_status reports currentVersion = v.
C10_SwitchPersists ==
  /\ [][(op.name = "spartan_cache_switch_version"
           /\ op'.name = "spartan_cache_clear" /\ op'.a = NoArg)
          => /\ ret'.version = Str(op.a)
             /\ EmptyInitialized(disk'[op.a])
             /\ \A v \in Versions : v # op.a => disk'[v] = disk[v]]_vars
  /\ [][(op.name = "spartan_cache_switch_version"
           /\ op'.name = "spartan_cache_status")
          => ret'.currentVersion = op.a]_vars

\* C9: ephemeral fetch cache hit: of two calls to fetchContent with the
\* same URL, format "html" and bypassCache=false, the first fetching and
\* caching the page and the second made within the TTL window of the
\* first, the second makes no network call and returns the content cached
\* by the first, so the two result in exactly one network call.
C9_FetchCacheHit ==
  \A a \in Callers, b \in Callers :
    LET A == calls[a]
        B == calls[b]
    IN (/\ A.pc = "done" /\ A.ok /\ A.net /\ B.pc # "idle" /\ A.seq < B.seq
        /\ A.url = B.url /\ A.format = "html" /\ B.format = "html"
        /\ ~A.noCache /\ ~B.noCache
        /\ B.now - A.now < 5 * 60 * 1000)
         => /\ ~B.net /\ B.pc = "done" /\ B.ok
            /\ B.result = A.result
            /\ (A.seq = 1 /\ B.seq = 2) => netCalls = 1

\* C9 witness: the first call fetched a page, time passed, and the second
\* call for the same URL was served from the Map: one network call.
C9_Witness ==
  \E a \in Callers, b \in Callers :
    /\ calls[a].pc = "done" /\ calls[a].ok /\ calls[a].net
    /\ calls[a].seq = 1 /\ calls[b].seq = 2
    /\ calls[b].pc = "done" /\ ~calls[b].net
    /\ calls[a].url = calls[b].url
    /\ calls[a].format = "html" /\ calls[b].format = "html"
    /\ ~calls[a].noCache /\ ~calls[b].noCache
    /\ calls[b].now - calls[a].now = ttlMs - 1
    /\ calls[b].result = PageY
    /\ netCalls = 1

\* The errors list a run must return: one record per failed component, in
\* list order.
RECURSIVE C8_Errors(_, _, _)
C8_Errors(components, outcomes, i) ==
  IF i > Len(components) THEN <<>>
  ELSE (IF outcomes[i] = "ok" THEN <<>>
        ELSE <<[component |-> components[i], error |-> outcomes[i]]>>)
       \o C8_Errors(components, outcomes, i + 1)

\* C8: warmer partial-failure tolerance: for every component list and every
\* pattern of per-item fetch/parse/write failures, warmCache returns having
\* attempted every listed component, with total = list length,
\* success + failed = total and one {component, error} record per failed
\* item in list order, and every item that succeeded is in the disk cache.
C8_WarmPartialFailure ==
  warm.pc = "done"
    => LET R == warm.results.components
           n == Len(warm.components)
       IN /\ R.total = n
          /\ R.success + R.failed = n
          /\ SubSeq(warm.attempted, 1, n) = warm.components
          /\ Len(warm.outcomes) >= n
          /\ R.failed = Cardinality({i \in 1..n : warm.outcomes[i] # "ok"})
          /\ R.errors = C8_Errors(warm.components, warm.outcomes, 1)
          /\ \A i \in 1..n :
               warm.outcomes[i] = "ok"
                 => /\ Active
                    /\ Readable(ComponentFile(currentVersion, warm.components[i]))
                    /\ warm.components[i]
                         \in DOMAIN MetadataFile(currentVersion).json.components

\* C8 witness: warmCache(["button", "dialog"]) where "button" succeeded and
\* "dialog" failed has returned {total 2, success 1, failed 1} and "button"
\* is cached.
C8_Witness ==
  /\ warm.pc = "done"
  /\ warm.components = <<"button", "dialog">>
  /\ ~warm.includeDocs
  /\ warm.outcomes = <<"ok", "Failed to fetch " \o ComponentUrl("dialog") \o ": 404 Not Found">>
  /\ warm.results.components.success = 1
  /\ warm.results.components.failed = 1
  /\ Readable(ComponentFile(currentVersion, "button"))
  /\ ~Readable(ComponentFile(currentVersion, "dialog"))

\* The fetchContent call that takes this step from its await to its end.
Settles(c) == calls[c].pc = "awaiting" /\ calls'[c].pc = "done"
\* The fetchContent call that is made in this step.
Starts(c) == calls'[c] # calls[c] /\ calls'[c].seq = nextSeq

\* C18: fetch failure leaves the fetch cache unchanged: when the network
\* returns a non-success status or the transport throws, fetchContent throws
\* to its caller (with the URL in the message for a status) and the Map
\* holds exactly the entries it held before, an expired entry for the same
\* key included.
C18_FailureKeepsCache ==
  [][\A c \in Callers :
       (Settles(c) /\ ~calls'[c].ok)
         => /\ responseCache' = responseCache
            /\ calls'[c].result \in
                 {"Failed to fetch " \o calls[c].url \o ": 404 Not Found",
                  "fetch failed"}]_vars

\* C18 witness: the second call found the entry of its key expired, went
\* to the network, failed, and the expired entry is still in the Map.
C18_Witness ==
  \E a \in Callers, b \in Callers :
    LET k == cacheKey(calls[b].url, calls[b].format) IN
    /\ calls[a].seq = 1 /\ calls[a].ok /\ calls[a].net /\ ~calls[a].noCache
    /\ calls[b].seq = 2 /\ calls[b].pc = "done" /\ ~calls[b].ok
    /\ ~calls[b].noCache
    /\ k = cacheKey(calls[a].url, calls[a].format)
    /\ k \in DOMAIN responseCache
    /\ responseCache[k].timestampMs = calls[a].now
    /\ calls[b].now - responseCache[k].timestampMs >= ttlMs

\* C19: lazy expiry of the fetch cache: a non-bypass call is served from
\* the Map exactly when the Map holds an entry under url::format whose age
\* is strictly less than the TTL, and then returns its content; otherwise
\* it goes to the network and, on success, overwrites the entry with its
\* result and its own timestamp; entries are never removed.
C19_LazyExpiry ==
  [][/\ \A c \in Callers :
          LET B == calls'[c]
              k == cacheKey(B.url, B.format)
              live == /\ k \in DOMAIN responseCache
                      /\ B.now - responseCache[k].timestampMs < ttlMs
          IN (Starts(c) /\ ~B.noCache)
               => /\ B.now = now
                  /\ ~B.net <=> live
                  /\ live => (B.pc = "done" /\ B.ok
                              /\ B.result = responseCache[k].content)
     /\ \A c \in Callers :
          (Settles(c) /\ calls'[c].ok /\ ~calls[c].noCache)
            => responseCache'[cacheKey(calls[c].url, calls[c].format)] =
                 [content |-> calls'[c].result, timestampMs |-> calls[c].now]
     /\ DOMAIN responseCache \subseteq DOMAIN responseCache']_vars

\* C19 witness: the second call came exactly one TTL after the first had
\* cached the same url::format, went to the network, and replaced the
\* entry with its own timestamp.
C19_Witness ==
  \E a \in Callers, b \in Callers :
    LET k == cacheKey(calls[b].url, calls[b].format) IN
    /\ calls[a].seq = 1 /\ calls[a].ok /\ calls[a].net /\ ~calls[a].noCache
    /\ calls[b].seq = 2 /\ calls[b].pc = "done" /\ calls[b].ok
    /\ ~calls[b].noCache /\ calls[b].net
    /\ k = cacheKey(calls[a].url, calls[a].format)
    /\ calls[b].now - calls[a].now = ttlMs
    /\ responseCache[k].timestampMs = calls[b].now

\* C19 witness for the key: a "text" result is cached and an "html" call
\* for the same URL, made right after it, went to the network.
C19_WitnessFormat ==
  \E a \in Callers, b \in Callers :
    /\ calls[a].seq = 1 /\ calls[a].ok /\ ~calls[a].noCache
    /\ calls[a].format = "text"
    /\ calls[b].seq = 2 /\ calls[b].format = "html" /\ calls[b].net
    /\ ~calls[b].noCache
    /\ calls[a].url = calls[b].url /\ calls[b].now = calls[a].now

\* The events of the component loop, in the order one item goes through
\* them.
C20_Order == <<"fetch", "result", "progress", "delay">>
\* The log entries that belong to the component loop.
C20_Log ==
  SubSeq(warm.log, 1,
         IF Len(warm.log) < 4 * Len(warm.components)
           THEN Len(warm.log) ELSE 4 * Len(warm.components))

\* C20: warmer ordering: warmCache takes the components one at a time in
\* list order; item i goes through its fetch, its cache write or failure
\* record, onProgress(i, total) and the rate-limit delay before item i+1 is
\* fetched, and that fetch starts no earlier than 100 ms after the delay
\* began; onProgress is called once per component, success or failure, with
\* 1..total in increasing order.
C20_WarmOrdering ==
  /\ \A j \in 1..Len(C20_Log) :
       /\ C20_Log[j].e = C20_Order[((j - 1) % 4) + 1]
       /\ C20_Log[j].i = ((j - 1) \div 4) + 1
       /\ (j > 1 /\ C20_Log[j].e = "fetch")
            => C20_Log[j].t >= C20_Log[j - 1].t + 100
       /\ j > 1 => C20_Log[j].t >= C20_Log[j - 1].t
  /\ warm.attempted
       = [j \in 1..Len(warm.attempted) |->
            IF j <= Len(warm.components) THEN warm.components[j]
            ELSE DOCUMENTATION_TOPICS[j - Len(warm.components)]]
  /\ warm.progress
       = [j \in 1..Len(warm.progress) |-> <<j, Len(warm.components)>>]
  /\ Len(warm.progress) = Len(warm.outcomes)
       \/ (warm.pc \in {"docDelay", "done"}
             /\ Len(warm.progress) = Len(warm.components))
  /\ warm.pc = "done" => Len(warm.progress) = Len(warm.components)

\* C20 witness: warmCache(["button", "dialog"]) has returned after "button"
\* failed and "dialog" succeeded, with onProgress(1, 2) then onProgress(2, 2)
\* and the second fetch 100 ms after the first item's delay began.
C20_Witness ==
  /\ warm.pc = "done"
  /\ warm.components = <<"button", "dialog">>
  /\ warm.outcomes[1] # "ok" /\ warm.outcomes[2] = "ok"
  /\ warm.progress = <<<<1, 2>>, <<2, 2>>>>
  /\ Len(warm.log) >= 8
  /\ warm.log[5].e = "fetch" /\ warm.log[5].t = warm.log[4].t + 100

\* The entry file of item k in partition v of disk d, for either tool.
EntryOf(d, tl, v) ==
  IF v = NullVersion \/ d[v] = NoDir THEN NoFile
  ELSE IF tl.tool = "spartan_components_get" THEN d[v].components[tl.args.name]
  ELSE d[v].docs[tl.args.name]
\* The tool call that starts in this step.
ToolStarts == tool'.seq = tool.seq + 1

\* C11: fresh cache hit needs no network: a spartan_components_get call
\* with noCache=false that finds a fresh disk entry for the component makes
\* no network fetch, for every format and extract.
C11_FreshHitNoNetwork ==
  (tool.tool = "spartan_components_get" /\ tool.branch = "hit")
    => tool.net = 0

\* C13: offline fallback: when a fetch of spartan_components_get or
\* spartan_docs_get (noCache=false) fails and the disk cache holds an entry
\* for the item in the active version, the tool returns the cached data
\* instead of failing.
C13_OfflineFallback ==
  (/\ tool.pc = "done"
   /\ ~tool.args.noCache
   /\ tool.call.pc = "done" /\ tool.call.net /\ ~tool.call.ok
   /\ Readable(EntryOf(disk, tool, currentVersion)))
    => tool.ok

\* C12: stale refresh transition: when spartan_components_get or
\* spartan_docs_get (noCache=false) finds a stale entry and the fetch
\* succeeds, the entry is overwritten with the cachedAt of that moment, and
\* the next identical call, made within the disk TTL of it, takes the
\* fresh-hit branch (CACHED DATA) and leaves the entry as it is.
C12_StaleRefresh ==
  [][/\ (tool.pc = "fetch1" /\ tool.branch = "refresh"
           /\ tool'.cacheInfo
                = [tag |-> "CACHE REFRESHED", version |-> Str(currentVersion)])
          => /\ Readable(EntryOf(disk', tool, currentVersion))
             /\ EntryOf(disk', tool, currentVersion).json.cachedAt
                  = toISOString(now)
     /\ (/\ ToolStarts
         /\ AfterRefresh(tool')
         /\ now - getTime(EntryOf(disk, tool, currentVersion).json.cachedAt)
              <= TtlMs)
          => /\ tool'.branch = "hit"
             /\ tool'.cacheInfo.tag = "CACHED DATA"
             /\ EntryOf(disk', tool', currentVersion')
                  = EntryOf(disk, tool, currentVersion)]_vars

\* C12 witness: the third call repeats the second, which had refreshed the
\* stale entry five minutes earlier, and is served as a fresh hit.
C12_Witness ==
  /\ tool.seq = 3 /\ tool.afterRefresh /\ tool.branch = "hit"
  /\ tool.pc = "done" /\ tool.ok
  /\ now = TtlMs + 1 + ttlMs
  /\ EntryOf(disk, tool, currentVersion).json.cachedAt = toISOString(TtlMs + 1)

\* C14: cache bypass leaves the caches untouched: every spartan_components_get
\* call with noCache=true goes to the network for each page it needs and no
\* step of it creates or changes a component entry on disk or an entry of
\* the in-memory Map; a fetchContent call with bypassCache=true goes to the
\* network whatever the Map holds and leaves the Map as it is.
C14_BypassUntouched ==
  /\ [](/\ (tool.tool = "spartan_components_get" /\ tool.args.name # ""
              /\ tool.args.noCache)
             => /\ tool.branch = "bypass"
                /\ tool.net >= 1
                /\ (tool.pc = "done" /\ tool.ok)
                     => tool.net = IF tool.args.extract = "none"
                                       \/ tool.args.format = "text"
                                     THEN 1 ELSE 2
        /\ (tool.pc # "idle" /\ tool.call.pc # "idle" /\ tool.call.noCache)
             => tool.call.net)
  /\ [][(tool'.tool = "spartan_components_get" /\ tool'.args.noCache
           /\ tool' # tool)
          => /\ responseCache' = responseCache
             /\ \A v \in Versions, k \in Keys :
                  (IF disk'[v] = NoDir THEN NoFile ELSE disk'[v].components[k])
                    = ComponentFile(v, k)]_vars

\* C14 witness: a bypassing call for a component that is cached fresh on
\* disk and in the Map has returned after two network fetches.
C14_Witness ==
  /\ tool.tool = "spartan_components_get" /\ tool.args.noCache
  /\ tool.pc = "done" /\ tool.ok /\ tool.net = 2 /\ tool.seq = 2
  /\ Readable(ComponentFile(currentVersion, tool.args.name))
  /\ cacheKey(tool.url, "html") \in DOMAIN responseCache
  /\ now - responseCache[cacheKey(tool.url, "html")].timestampMs < ttlMs

\* The content of a block with its tags stripped and its entities decoded.
C17_Stripped(content) ==
  LET t == SelectSeq(content, LAMBDA tok : tok \notin Tags)
  IN [i \in 1..Len(t) |-> decode(t[i])]

C15_NoApiSections ==
  (ex.pc = "returned" /\ ex.fn = "extractAPIInfo"
     /\ headingFrom(ex.html, BrainTitles \cup HelmTitles, 1) = 0)
    => /\ DOMAIN ex.out = {"brainAPI", "helmAPI", "examples"}
       /\ ex.out.brainAPI = <<>>
       /\ ex.out.helmAPI = <<>>

\* C15 witness: a page with a BrnButton heading, its Inputs table and an
\* example, but no API heading, gave no API records and one example.
C15_Witness ==
  /\ ex.pc = "returned" /\ ex.fn = "extractAPIInfo"
  /\ headingFrom(ex.html, {"BrnButton"}, 1) = 1
  /\ headingFrom(ex.html, {"Inputs"}, 1) # 0
  /\ headingFrom(ex.html, BrainTitles \cup HelmTitles, 1) = 0
  /\ ex.out.brainAPI = <<>> /\ ex.out.helmAPI = <<>>
  /\ Len(ex.out.examples) = 2

\* The inputs a table must give: one entry per data row of three or more
\* cells, from the texts of its first four cells.
RECURSIVE C16_Inputs(_)
C16_Inputs(rows) ==
  IF rows = <<>> THEN <<>>
  ELSE (IF Len(Head(rows)) < 3 THEN <<>>
        ELSE <<[prop |-> Head(rows)[1].text, type |-> Head(rows)[2].text,
                default |-> Head(rows)[3].text,
                description |-> IF Len(Head(rows)) >= 4
                                  THEN Head(rows)[4].text ELSE <<>>]>>)
       \o C16_Inputs(Tail(rows))

\* C16: Inputs table parsing: for a Brain API section with one component
\* heading and an Inputs table of a header row and n data rows, brainAPI is
\* one record whose inputs has one entry per data row of at least 3 cells,
\* in document order, with prop/type/default/description the texts of the
\* row's first four cells (description empty without a 4th cell); the
\* header row and the rows of fewer than 3 cells give no entry.
C16_InputsTable ==
  (ex.pc = "returned" /\ ex.fn = "extractAPIInfo" /\ ex.input # Undefined)
    => /\ Len(ex.out.brainAPI) = 1
       /\ ex.out.brainAPI[1].name = "BrnButton"
       /\ ex.out.brainAPI[1].inputs = C16_Inputs(ex.input.rows)

\* C16 witness: a table whose data rows are one of two cells and one of
\* four cells with an empty 4th gave exactly one entry, description empty.
C16_Witness ==
  /\ ex.pc = "returned" /\ ex.fn = "extractAPIInfo" /\ ex.input # Undefined
  /\ ex.input.rows = <<<<CellA, CellB>>, <<CellA, CellB, CellA, CellEmpty>>>>
  /\ ex.input.suffix # <<>>
  /\ ex.out.brainAPI[1].inputs
       = <<[prop |-> <<"a">>, type |-> <<"b">>, default |-> <<"a">>,
            description |-> <<>>]>>
\* The miss getComponent and getDocs answer under the active version.
C21_Miss ==
  [data |-> Null, cached |-> FALSE, stale |-> FALSE, cachedAt |-> Null,
   version |-> Str(currentVersion)]

\* C21: read paths downgrade to a miss: whenever the entry file of the
\* requested key is missing or holds corrupt JSON, getComponent and getDocs
\* (of an initialized manager) do not throw and return cached=false,
\* stale=false, data=null, cachedAt=null with the active version, and the
\* disk is as it was.
C21_ReadMiss ==
  /\ []((Active /\ op.name = "getComponent"
           /\ ~Readable(ComponentFile(currentVersion, op.a)))
          => ret = C21_Miss)
  /\ []((Active /\ op.name = "getDocs"
           /\ ~Readable(DocsFile(currentVersion, op.a)))
          => ret = C21_Miss)
  /\ [][op'.name \in {"getComponent", "getDocs"} => disk' = disk]_vars

\* C21 witness: an entry was written, then corrupted, and the read of it
\* returned the miss.
C21_Witness ==
  /\ op.name = "getComponent" /\ prev = "fault"
  /\ ComponentFile(currentVersion, op.a) = Corrupt
  /\ ret = C21_Miss

\* C21 witness, docs: a docs entry was deleted and the read of it returned
\* the miss.
C21_WitnessDocs ==
  /\ op.name = "getDocs" /\ prev = "fault"
  /\ DocsFile(currentVersion, op.a) = NoFile
  /\ ret = C21_Miss
\* A step that is initialize or switchVersion finding the metadata file of
\* the partition it selects missing or corrupt.
C22_Recreates ==
  /\ op'.name \in {"initialize", "switchVersion"}
  /\ ~Readable(MetadataFile(currentVersion'))

\* C22: metadata recreation loses bookkeeping only: when initialize or
\* switchVersion finds the partition's metadata file missing or corrupt, it
\* writes a fresh metadata file with empty components and docs maps and
\* leaves every entry file of the partition as it was, and a read of an
\* entry file that is there returns cached=true whatever the metadata says.
C22_MetadataRecreation ==
  /\ [][C22_Recreates =>
          LET v == currentVersion' IN
          /\ Readable(disk'[v].metadata)
          /\ disk'[v].metadata.json.version = Str(v)
          /\ disk'[v].metadata.json.components = EmptyObj
          /\ disk'[v].metadata.json.docs = EmptyObj
          /\ \A k \in Keys : disk'[v].components[k] = ComponentFile(v, k)
          /\ \A k \in Topics : disk'[v].docs[k] = DocsFile(v, k)]_vars
  /\ []((Active /\ op.name = "getComponent"
           /\ Readable(ComponentFile(currentVersion, op.a)))
          => (Returned /\ ret.cached))
  /\ []((Active /\ op.name = "getDocs"
           /\ Readable(DocsFile(currentVersion, op.a)))
          => (Returned /\ ret.cached))

\* C22 witness: the metadata of a partition that holds an entry was lost and
\* recreated empty by switchVersion, and the entry was then read.
C22_Witness ==
  /\ op.name = "getComponent" /\ prev = "switchVersion"
  /\ Returned /\ ret.cached
  /\ Readable(MetadataFile(currentVersion))
  /\ MetadataFile(currentVersion).json.components = EmptyObj
\* The payload an entry file was written from: the entry without the three
\* fields setComponent adds.
C23_Payload(entry) ==
  [f \in DOMAIN entry \ {"componentName", "version", "cachedAt"} |-> entry[f]]

\* C23: field projection: for a present entry, getComponent(key, field)
\* returns as data exactly the value stored under `field` in the written
\* payload, for every field of the payload and every stored value (empty
\* values included), and getComponent(key) with no field returns the whole
\* payload.
C23_FieldProjection ==
  (Active /\ op.name = "getComponent"
     /\ Readable(ComponentFile(currentVersion, op.a)))
    => LET payload == C23_Payload(ComponentFile(currentVersion, op.a).json)
       IN /\ Returned /\ ret.cached
          /\ op.b = NoArg => ret.data = payload
          /\ op.b \in DOMAIN payload => ret.data = payload[op.b]

\* The part of C23 about named fields alone.
C23_NamedField ==
  (Active /\ op.name = "getComponent" /\ op.b # NoArg
     /\ Readable(ComponentFile(currentVersion, op.a)))
    => LET payload == C23_Payload(ComponentFile(currentVersion, op.a).json)
       IN op.b \in DOMAIN payload => ret.data = payload[op.b]

\* What getComponent does return: the stored value of the field ("full" when
\* none is named) when the entry has it and it is truthy, the whole entry
\* otherwise.
C23_Projection ==
  (Active /\ op.name = "getComponent"
     /\ Readable(ComponentFile(currentVersion, op.a)))
    => LET entry == ComponentFile(currentVersion, op.a).json
           field == IF op.b = NoArg THEN "full" ELSE op.b
       IN /\ Returned /\ ret.cached
          /\ ret.data = IF field \in DOMAIN entry /\ entry[field] # Str("")
                           THEN entry[field] ELSE entry
\* Where the heading with the text title stands in the page, or 0.
C24_At(title) == headingFrom(ex.html, {title}, 1)
\* Whether the heading of the component lies after the heading `title` with
\* no heading of Ends between the two.
C24_Inside(name, title, Ends) ==
  /\ C24_At(title) # 0
  /\ C24_At(title) < C24_At(name)
  /\ \A e \in Ends : ~(C24_At(title) < C24_At(e) /\ C24_At(e) < C24_At(name))
C24_Names(records) == {records[i].name : i \in 1..Len(records)}

\* C24: section scoping: a component record appears in brainAPI only if its
\* heading lies between the "Brain API" heading and the next "Helm API" or
\* "On this page" heading (or the end), and in helmAPI only if its heading
\* lies inside the "Helm API" section (up to "On this page" or the end),
\* whichever of the two sections comes first, and no component heading is
\* reported in both lists.
C24_SectionScoping ==
  (ex.pc = "returned" /\ ex.fn = "extractAPIInfo")
    => /\ \A n \in C24_Names(ex.out.brainAPI) :
            C24_Inside(n, "Brain API", {"Helm API", "On this page"})
       /\ \A n \in C24_Names(ex.out.helmAPI) :
            C24_Inside(n, "Helm API", {"On this page"})
       /\ C24_Names(ex.out.brainAPI) \cap C24_Names(ex.out.helmAPI) = {}

\* The same for the pages whose "Brain API" heading does not come after
\* their "Helm API" heading.
C24_BrainFirst ==
  (C24_At("Helm API") = 0 \/ C24_At("Brain API") = 0
     \/ C24_At("Brain API") < C24_At("Helm API"))
    => C24_SectionScoping
\* C25: interleaved requests keep entry and index in the same partition:
\* under any interleaving of concurrent requests that select different
\* versions, every setComponent writes its entry file and its metadata
\* record into one and the same partition, so the metadata.json of a
\* partition P never carries a version other than P nor lists a key whose
\* entry file was written to another partition.
C25_SamePartition ==
  /\ \A r \in Requests :
       reqs[r].metaAt # NoArg => reqs[r].metaAt = reqs[r].entryAt
  /\ \A v \in Versions :
       Readable(MetadataFile(v))
         => /\ MetadataFile(v).json.version = Str(v)
            /\ \A k \in DOMAIN MetadataFile(v).json.components :
                 /\ Readable(ComponentFile(v, k))
                 /\ ComponentFile(v, k).json.version = Str(v)

\* The same when the two requests select the same version.
C25_OneVersion ==
  (currentVersion = "v1" /\ disk["latest"] = NoDir) => C25_SamePartition
\* A fetchContent call with bypassCache=false that awaits its response.
C26_Outstanding(c) == calls[c].pc = "awaiting" /\ ~calls[c].noCache

\* C26: no duplicate in-flight fetch: among the fetchContent callers with
\* bypassCache=false, at most one network request per (url, format) key is
\* outstanding at any time.
C26_NoDuplicateFetch ==
  \A c, d \in Callers :
    (C26_Outstanding(c) /\ C26_Outstanding(d)
       /\ cacheKey(calls[c].url, calls[c].format)
            = cacheKey(calls[d].url, calls[d].format))
      => c = d
\* C27: a warm run stays in one partition: every entry written by a
\* warmCache run (the only writer here) is stored in the partition named by
\* the version field of the run's result, even when another request
\* switches the version while the run is suspended.
C27_WarmOnePartition ==
  warm.pc # "idle"
    => \A v \in Versions :
         Str(v) # Str(warm.results.version)
           => (StoredKeys(v) = {} /\ StoredTopics(v) = {})
\* C28: cached html is always raw HTML: the html field and full.html of
\* every component entry spartan_components_get wrote to the disk cache hold
\* the page's raw HTML, and its api field is the extraction of that raw
\* HTML, whatever format the request that wrote the entry asked for.
C28_CachedRawHtml ==
  \A v \in Versions : \A k \in StoredKeys(v) :
    /\ ComponentFile(v, k).json.html = Str(PageX)
    /\ ComponentFile(v, k).json.full.html = Str(PageX)
    /\ ComponentFile(v, k).json.api = apiOf(PageX)

\* The entries written by format "html" requests hold the raw HTML.
C28_HtmlRequests ==
  [][(tool.pc = "fetch1" /\ tool.args.format = "html"
        /\ tool.tool = "spartan_components_get"
        /\ Readable(EntryOf(disk', tool, currentVersion))
        /\ EntryOf(disk', tool, currentVersion)
             # EntryOf(disk, tool, currentVersion))
       => EntryOf(disk', tool, currentVersion).json.html = Str(PageX)]_vars
\* What a call with the arguments of tl returns when the site serves PageX
\* and no cache is involved.
C29_Expected(tl) ==
  IF tl.args.extract = "none" \/ tl.args.format = "text"
    THEN Str(IF tl.args.format = "text" THEN htmlToText(PageX) ELSE PageX)
    ELSE CASE tl.args.extract = "code" -> examplesOf(PageX)
           [] tl.args.extract = "headings" -> headingsOf(PageX)
           [] tl.args.extract = "links" -> linksOf(PageX)
           [] tl.args.extract = "api" /\ tl.tool = "spartan_components_get"
                -> apiOf(PageX)
           [] OTHER -> <<>>
\* The content a finished call returned.
C29_Returned(tl) ==
  IF tl.args.extract = "none" \/ tl.args.format = "text"
    THEN tl.result.text ELSE tl.result.data

\* C29: responses do not depend on cache state: with the site content
\* unchanged, the content spartan_components_get and spartan_docs_get return
\* for given (name or topic, format, extract) is the same on a fresh
\* disk-cache hit as on a miss or a bypass, whatever requests populated the
\* cache: plain text for format "text", raw HTML for format "html".
C29_CacheIndependent ==
  (tool.pc = "done" /\ tool.ok) => C29_Returned(tool) = C29_Expected(tool)

\* The same for the calls that do not take the hit branch.
C29_MissOrBypass ==
  (tool.pc = "done" /\ tool.ok /\ tool.branch # "hit")
    => C29_Returned(tool) = C29_Expected(tool)
\* C30: warmer termination: for every component list and every includeDocs
\* value, when each fetch and each disk write settles in the end, warmCache
\* returns a result, and by then it has attempted each listed component
\* exactly once, in order, and (includeDocs being true) each documentation
\* topic exactly once after the last component.
C30_WarmerTermination ==
  /\ (warm.pc # "idle") ~> (warm.pc = "done")
  /\ [](warm.pc = "done"
          => warm.attempted
               = warm.components
                   \o (IF warm.includeDocs THEN DOCUMENTATION_TOPICS ELSE <<>>))
  /\ [](warm.pc \notin {"idle", "done"}
          => /\ Len(warm.attempted) = warm.i + 1
             /\ \A j \in 1..Len(warm.attempted) :
                  warm.attempted[j]
                    = (warm.components \o DOCUMENTATION_TOPICS)[j])

\* C30 witness: a run over two components and the documentation has
\* returned, one of its fetches having failed and one of its writes having
\* been rejected.
C30_Witness ==
  /\ warm.pc = "done"
  /\ warm.includeDocs
  /\ warm.components = <<"button", "dialog">>
  /\ warm.attempted = <<"button", "dialog", "installation">>
  /\ warm.results.components.failed = 1
  /\ warm.results.docs.failed = 1
====
